---------------------------- MODULE Spec2Model ----------------------------
(***************************************************************************)
(* Model of the live visualization pipeline of audio-visualizer:           *)
(*   src/src/dynamic/window_top_btm/mod.rs   (open_window_connect_audio)   *)
(*   src/src/dynamic/live_input.rs           (AudioDevAndCfg::new,         *)
(*                                            setup_audio_input_loop)      *)
(*   src/src/dynamic/window_top_btm/visualize_minifb.rs   (setup_window)   *)
(* and of the older setup functions of src/src/dynamic/live_input_visualize *)
(* (setup_fn tells which module's setup functions a run uses; the render   *)
(* loop is the one of open_window_connect_audio in both cases).            *)
(*                                                                         *)
(* Two threads share one mutex-protected ring buffer ("store"):            *)
(*   - the UI thread runs open_window_connect_audio (setup, render loop,   *)
(*     shutdown);                                                          *)
(*   - the audio backend's thread runs the data callback installed by      *)
(*     setup_audio_input_loop.                                             *)
(* The user (key presses, closing the window) is a third actor.            *)
(*                                                                         *)
(* Amplitudes are f32 values in the code.  The model uses integers: every  *)
(* sample the device delivers is an even integer, so (l + r) / 2.0 is the  *)
(* exact integer (l + r) \div 2, as it is exact in f32 for small values.   *)
(* Time stamps are counted in units of time_per_sample.                    *)
(***************************************************************************)
EXTENDS Integers, Sequences, FiniteSets

\* ------------------------------------------------------------------ bounds
\* Number of raw samples the device delivers in a run.
MaxDelivered == 10
\* Largest number of raw samples in one callback buffer.
MaxBufLen == 4
\* Number of loop iterations followed after Escape was first pressed.
MaxIters == 3
\* Number of stream errors the device reports in a run.
MaxErrors == 2

\* ----------------------------------------------------------- input domains
\* Sampling rates of the stream configuration used in the live pipeline
\* (5 * 1 = 5 samples round up to a store of 8).
Rates == {1}
\* Sampling rates whose stores hold 8, 16 and 32 samples (5 * rate rounded up
\* to a power of two).
PaintRates == {1, 2, 4}
\* Channel counts of the stream configuration.
ChannelCounts == {1, 2, 3}
\* The two functions of the crate that build the input stream:
\* dynamic::live_input::setup_audio_input_loop (used by
\* open_window_connect_audio) and its older variant
\* dynamic::live_input_visualize::live_input::setup_audio_input_loop.
SetupFns == {"live_input", "live_input_visualize"}
\* The audio hosts (backends) of cpal the crate names.
Backends == {"alsa", "wasapi", "coreaudio"}
\* The input devices of the host.
Devices == {"mic", "usb"}
\* cpal::BufferSize: Default, or Fixed(n) frames.
DefaultBuf == <<"Default", 0>>
FixedBuf(n) == <<"Fixed", n>>
\* No stream was requested yet.
NoBuf == <<"None", 0>>
\* The smallest buffer size a device supports: one below and one above 128.
DevMinBufs == {64, 256}
\* Option<T>: None is the empty sequence, Some(v) is <<v>>.
None == << >>
Some(v) == <<v>>
Option(S) == {None} \cup {Some(v) : v \in S}
\* Option::unwrap_or
UnwrapOr(opt, default) == IF opt = None THEN default ELSE opt[1]
\* Stream configurations a caller passes to AudioDevAndCfg::new.
PreferredCfgs ==
    {[channels |-> 2, sample_rate |-> 1, buffer_size |-> FixedBuf(64)],
     [channels |-> 1, sample_rate |-> 1, buffer_size |-> DefaultBuf],
     [channels |-> 3, sample_rate |-> 1, buffer_size |-> FixedBuf(512)]}
\* dev.default_input_config().unwrap().config(): the device's default
\* channels and rate, with BufferSize::Default.
DefaultInputConfig(d) ==
    [channels |-> IF d = "mic" THEN 2 ELSE 1, sample_rate |-> 1,
     buffer_size |-> DefaultBuf]
\* Width and height of the window when none is preferred.
DEFAULT_W == 1280
DEFAULT_H == 720
\* Window sizes and chart ranges a caller prefers.
PreferredHeights == {480}
PreferredWidths == {640}
PreferredXRanges == {<<-2, 5>>}
PreferredYRanges == {<<0, 50>>}
\* No window, range or call yet.
NoDims == <<0, 0>>
NoRange == <<0, 0>>
\* The user's transform functions (names of the closures the model knows).
BasicFns == {"identity", "invert", "drop_last"}
ComplexFns == {"last_point", "empty"}
TransformFns == {[kind |-> "Basic", fn |-> f] : f \in BasicFns}
                  \cup {[kind |-> "Complex", fn |-> f] : f \in ComplexFns}

\* -------------------------------------------------------------- arithmetic
RECURSIVE Pow2(_)
Pow2(k) == IF k = 0 THEN 1 ELSE 2 * Pow2(k - 1)

\* Number of binary digits of n (0 for n = 0).
RECURSIVE BitLen(_)
BitLen(n) == IF n = 0 THEN 0 ELSE 1 + BitLen(n \div 2)

\* Mantissa width of an f32 (with the hidden bit).
F32MantissaBits == 24

\* `n as f32` for an unsigned integer n: the nearest f32, ties to even.
U32AsF32(n) ==
    IF BitLen(n) <= F32MantissaBits THEN n
    ELSE LET q    == Pow2(BitLen(n) - F32MantissaBits)
             lo   == (n \div q) * q
             r    == n - lo
             half == q \div 2
         IN  IF r < half THEN lo
             ELSE IF r > half THEN lo + q
             ELSE IF (n \div q) % 2 = 0 THEN lo ELSE lo + q

\* `x as usize` for a non-negative integral f32: the value itself.
F32AsUsize(x) == x

\* usize::next_power_of_two: the smallest power of two >= n (1 for n = 0).
RECURSIVE NextPowerOfTwoFrom(_, _)
NextPowerOfTwoFrom(n, p) == IF p >= n THEN p ELSE NextPowerOfTwoFrom(n, 2 * p)
NextPowerOfTwo(n) == NextPowerOfTwoFrom(n, 1)

\* --------------------------------------------------------- the ring buffer
\* AllocRingBuffer::new(cap): an empty buffer of the given capacity.  The
\* model keeps the elements oldest first; the capacity is kept beside it.
RingNew == << >>

\* A faulty push: a full buffer loses its newest element instead of its oldest.
RingPush_EvictsNewest(s, v, cap) ==
    IF Len(s) >= cap THEN SubSeq(s, 1, Len(s) - 1) \o <<v>> ELSE Append(s, v)

\* RingBuffer::push: appends v, evicting the oldest element of a full buffer.
RingPush(s, v, cap) == IF Len(s) >= cap THEN Tail(s) \o <<v>> ELSE Append(s, v)

\* RingBuffer::fill(v): the buffer holds `cap` copies of v afterwards.
RingFill(s, v, cap) == [i \in 1..cap |-> v]

\* RingBuffer::to_vec: the elements, oldest first.
RingToVec(s) == s

\* Extend::extend: push every element of the iterator, in its order.
RECURSIVE RingExtend(_, _, _)
RingExtend(s, items, cap) ==
    IF items = << >> THEN s
    ELSE RingExtend(RingPush(s, Head(items), cap), Tail(items), cap)

\* init_ringbuffer's capacity for the sampling rate handed to it.
RingCapacity(sampling_rate) == NextPowerOfTwo(5 * sampling_rate)

\* A faulty init_ringbuffer: the buffer is allocated and not filled.
InitRingbuffer_NoFill(sampling_rate) == RingNew

\* init_ringbuffer: a buffer of RingCapacity zeroes.
InitRingbuffer(sampling_rate) ==
    RingFill(RingNew, 0, RingCapacity(sampling_rate))


\* ------------------------------------------------------ the data callback
\* A faulty chunking that keeps the remainder: the trailing sample of a buffer
\* of odd length forms a pair with itself.
ChunksExact2_KeepsRemainder(data) ==
    [j \in 1..((Len(data) + 1) \div 2) |->
        <<data[2 * j - 1], data[IF 2 * j <= Len(data) THEN 2 * j ELSE 2 * j - 1]>>]

\* data.chunks_exact(2): the complete pairs of the buffer, in order.
ChunksExact2(data) ==
    [j \in 1..(Len(data) \div 2) |-> <<data[2 * j - 1], data[2 * j]>>]

\* A faulty downmix: the left sample alone.
DownmixChunk_LeftOnly(vals) == vals[1]

\* |vals| (vals[0] + vals[1]) / 2.0
DownmixChunk(vals) == (vals[1] + vals[2]) \div 2

\* The iterator the callback hands to extend: the buffer itself for a mono
\* stream, one downmixed sample per complete LR pair otherwise.
CallbackItems(data, is_mono) ==
    IF is_mono THEN data
    ELSE [j \in 1..Len(ChunksExact2(data)) |-> DownmixChunk(ChunksExact2(data)[j])]

\* The buffer the device delivers: n raw samples following the `sofar` it
\* delivered before, a rising ramp of even amplitudes (no two samples of a run
\* are equal, and none equals the zero of the prefill).
DeviceBuffer(sofar, n) == [i \in 1..n |-> 2 * (sofar + i)]

\* ------------------------------------------------------------ the painting
\* A faulty timestamp without the shift by the history's length.
Timestamp_NoShift(i, audio_history_buf_len) == i

\* The timestamp of sample index i (0-based) of a buffer of the given history
\* length, time_per_sample * i - timeshift, in units of time_per_sample.
Timestamp(i, audio_history_buf_len) == i - audio_history_buf_len

\* A faulty decimation filter that keeps the indices 1, 5, 9, ..
KeepIndex_FromOne(i) == i % 4 = 1

\* The decimation filter of fill_chart_waveform_over_time: |(i, _)| i % 4 == 0.
KeepIndex(i) == i % 4 = 0

\* The 0-based indices the filter keeps, in increasing order.
RECURSIVE KeptIndices(_, _)
KeptIndices(i, n) ==
    IF i >= n THEN << >>
    ELSE IF KeepIndex(i) THEN <<i>> \o KeptIndices(i + 1, n)
    ELSE KeptIndices(i + 1, n)

\* A faulty fill_chart_waveform_over_time that hands every eighth sample to
\* LineSeries.
WaveformPoints_EveryEighth(audio_data, audio_history_buf_len) ==
    LET kept == SelectSeq(KeptIndices(0, Len(audio_data)), LAMBDA i : i % 8 = 0)
    IN  [k \in 1..Len(kept) |->
            <<Timestamp(kept[k], audio_history_buf_len), audio_data[kept[k] + 1]>>]

\* fill_chart_waveform_over_time: the points handed to LineSeries.
WaveformPoints(audio_data, audio_history_buf_len) ==
    LET kept == KeptIndices(0, Len(audio_data))
    IN  [k \in 1..Len(kept) |->
            <<Timestamp(kept[k], audio_history_buf_len), audio_data[kept[k] + 1]>>]

\* fill_chart_complex_fnc: the points handed to LineSeries.
ComplexPoints(audio_data) == audio_data

\* The user's transform closures.
ApplyBasic(fn, v, rate) ==
    CASE fn = "identity"  -> v
      [] fn = "invert"    -> [i \in 1..Len(v) |-> 0 - v[i]]
      [] fn = "drop_last" -> SubSeq(v, 1, Len(v) - 1)

ApplyComplex(fn, v, rate) ==
    CASE fn = "last_point" -> IF v = << >> THEN << >> ELSE << <<rate, v[Len(v)]>> >>
      [] fn = "empty"      -> << >>

\* ------------------------------------------------------------------- state
VARIABLES
    \* the call's arguments and the build
    channels,          \* cfg.channels
    sample_rate_cfg,   \* cfg.sample_rate.0
    debug_assertions,  \* whether debug_assert! is compiled in
    transform,         \* audio_data_transform_fn
    \* the UI thread
    pc,                \* its position in open_window_connect_audio
    sample_rate,       \* the local sample_rate (f32)
    audio_buffer_len,  \* the local audio_buffer_len
    snapshot,          \* the frame's local latest_audio_data (a Vec)
    transformOut,      \* the frame's local data
    transformCalls,    \* calls of the transform function in this frame
    transformArgs,     \* the arguments of the last call
    topPlot,           \* the series drawn in the top plotting area
    btmPlot,           \* the series drawn in the bottom plotting area
    uiLocks,           \* times the UI took the store's lock in this iteration
    blits,             \* calls of update_with_buffer in this iteration
    \* the shared store
    store,             \* the ring buffer's elements, oldest first
    capacity,          \* the ring buffer's capacity
    lock,              \* the mutex: "free", "ui" or "cb"
    \* the stream and the window
    stream,            \* "none", "built", "playing", "paused"
    windowOpen,        \* window.is_open()
    keyDown,           \* window.is_key_down(Key::Escape)
    escPhys,           \* the Escape key is physically held down
    closeReq,          \* the user asked to close the window
    \* the backend's thread
    cbPc,              \* its position in the data callback
    cbData,            \* the callback's buffer
    cbIdx,             \* items of the iterator extend has pushed
    delivered,         \* raw samples the device has delivered
    \* history
    hist,              \* mono samples of the callbacks that returned, in order
    cbPre,             \* the store's elements when the running callback began
    pressState,        \* the first press of Escape: "none", "pressed" (down, no
                       \* window update yet), "seen" (down at the next update),
                       \* "missed" (released before it)
    pressIters,        \* iterations started since Escape was first pressed
    \* the error callback
    setup_fn,          \* the module whose setup functions are used
    errors,            \* stream errors the backend has reported
    errLog,            \* lines the error callback has written to stderr
    \* the host, the device and the stream request
    backend,           \* cpal::default_host()
    dev_min_buf,       \* smallest buffer size the devices support
    host_default_dev,  \* host.default_input_device()
    preferred_dev,     \* argument of AudioDevAndCfg::new
    preferred_cfg,     \* argument of AudioDevAndCfg::new
    dev,               \* AudioDevAndCfg.dev ("none" before new)
    cfg_buffer_size,   \* AudioDevAndCfg.cfg.buffer_size
    requested_buffer_size, \* buffer size of the config given to build_input_stream
    \* the window's arguments
    preferred_height,  \* Option<usize>
    preferred_width,   \* Option<usize>
    preferred_x_range, \* Option<Range<f64>>, in units of time_per_sample
    preferred_y_range, \* Option<Range<f64>>, in hundredths
    \* the window
    window_dims,       \* <<width, height>> given to Window::new
    pixel_buf_len,     \* length of the pixel buffer in u32 words
    x_range_top,       \* x-range of the top chart, <<start, end>>
    y_range_top,
    x_range_btm,       \* x-range of the bottom chart
    y_range_btm,
    area_dims,         \* <<width, height>> of the last get_drawing_areas
    blit_dims,         \* <<width, height>> of the last update_with_buffer
    \* a call of a static renderer or of a channel helper
    call,              \* the function called and its arguments
    outcome,           \* "none" (not run yet), "returned" or "panicked"
    dir_exists,        \* the directory argument names an existing directory
    dir_created,       \* the call created the directory
    written,           \* the image files the call wrote, in order
    ret                \* the value the call returned

cfgVars == <<channels, sample_rate_cfg, debug_assertions, transform>>
uiVars == <<pc, sample_rate, audio_buffer_len, snapshot, transformOut,
            transformCalls, transformArgs, topPlot, btmPlot>>
storeVars == <<store, capacity, lock>>
envVars == <<stream, windowOpen, keyDown, escPhys, closeReq>>
cbVars == <<cbPc, cbData, cbIdx, delivered>>
histVars == <<hist, cbPre, pressState, pressIters>>
errVars == <<setup_fn, errors, errLog>>
hostVars == <<backend, dev_min_buf, host_default_dev, preferred_dev, preferred_cfg>>
devVars == <<dev, cfg_buffer_size, requested_buffer_size>>
winArgs == <<preferred_height, preferred_width, preferred_x_range, preferred_y_range>>
winVars == <<window_dims, pixel_buf_len, x_range_top, y_range_top, x_range_btm,
             y_range_btm, area_dims, blit_dims>>
frameVars == <<uiLocks, blits>>
staticVars == <<call, outcome, dir_exists, dir_created, written, ret>>
auxVars == <<errVars, hostVars, winArgs, staticVars>>
vars == <<cfgVars, uiVars, frameVars, storeVars, envVars, cbVars, histVars, auxVars,
          devVars, winVars>>

\* The state at the entry of open_window_connect_audio, for the given
\* arguments and builds.
InitFor(rates, chans, builds, fns) ==
    /\ channels \in chans
    /\ sample_rate_cfg \in rates
    /\ debug_assertions \in builds
    /\ transform \in fns
    /\ pc = "entry"
    /\ sample_rate = 0
    /\ audio_buffer_len = 0
    /\ snapshot = << >>
    /\ transformOut = << >>
    /\ transformCalls = 0
    /\ transformArgs = << >>
    /\ topPlot = << >>
    /\ btmPlot = << >>
    /\ uiLocks = 0
    /\ blits = 0
    /\ store = << >>
    /\ capacity = 0
    /\ lock = "free"
    /\ stream = "none"
    /\ windowOpen = FALSE
    /\ keyDown = FALSE
    /\ escPhys = FALSE
    /\ closeReq = FALSE
    /\ cbPc = "idle"
    /\ cbData = << >>
    /\ cbIdx = 0
    /\ delivered = 0
    /\ hist = << >>
    /\ cbPre = << >>
    /\ pressState = "none"
    /\ pressIters = -1

\* No stream error was reported yet; the stream is built by one of fns.
InitErrFor(fns) ==
    /\ setup_fn \in fns
    /\ errors = 0
    /\ errLog = 0

\* No static renderer or channel helper is called.
NoCall == [fn |-> "none", data |-> << >>, channels |-> "-", flag |-> FALSE,
           filename |-> "-"]

InitNoCall ==
    /\ call = NoCall
    /\ outcome = "none"
    /\ dir_exists = TRUE
    /\ dir_created = FALSE
    /\ written = << >>
    /\ ret = << >>

\* The host and the arguments of AudioDevAndCfg::new.
InitHostFor(backends, mins, defaults, devs, cfgs) ==
    /\ backend \in backends
    /\ dev_min_buf \in mins
    /\ host_default_dev \in defaults
    /\ preferred_dev \in devs
    /\ preferred_cfg \in cfgs

\* The window's arguments; no window exists.
InitWinFor(heights, widths, xranges, yranges) ==
    /\ preferred_height \in heights
    /\ preferred_width \in widths
    /\ preferred_x_range \in xranges
    /\ preferred_y_range \in yranges
    /\ window_dims = NoDims
    /\ pixel_buf_len = 0
    /\ x_range_top = NoRange /\ y_range_top = NoRange
    /\ x_range_btm = NoRange /\ y_range_btm = NoRange
    /\ area_dims = NoDims
    /\ blit_dims = NoDims

\* The device and configuration at the entry of open_window_connect_audio:
\* AudioDevAndCfg::new was called with the host's default device "mic" and a
\* configuration of the given channels and rate, on an ALSA host.
InitDevSelected ==
    /\ InitHostFor({"alsa"}, {64}, {Some("mic")}, {None},
                   {Some([channels |-> channels, sample_rate |-> sample_rate_cfg,
                          buffer_size |-> DefaultBuf])})
    /\ dev = "mic"
    /\ cfg_buffer_size = DefaultBuf
    /\ requested_buffer_size = NoBuf

Init ==
    /\ InitFor(Rates, ChannelCounts, BOOLEAN, TransformFns)
    /\ InitErrFor({"live_input"})
    /\ InitNoCall
    /\ InitDevSelected
    /\ InitWinFor({None}, {None}, {None}, {None})


\* ----------------------------------------------------------- the UI thread
\* The positions of the render loop, from the loop condition to the blit.
LoopPcs == {"loop_check", "areas", "restore", "fill", "lock", "copy",
            "paint_top", "transform", "paint_btm", "blit"}
\* The positions at which open_window_connect_audio has panicked: the channel
\* assertion, the unwraps of build_input_stream, play, setup_window,
\* update_with_buffer and pause, and the length assertion of the top and of
\* the bottom chart.
PanicPcs == {"panic_channels", "panic_build_stream", "panic_play", "panic_window",
             "panic_top_len", "panic_btm_len", "panic_update", "panic_pause"}
\* The positions at which open_window_connect_audio has ended.
EndPcs == {"returned"} \cup PanicPcs

\* The positions at which the selection of device and configuration panicked.
SelectPanicPcs == {"panic_no_input_device", "panic_no_default_cfg"}

\* A faulty choice: the default configuration is asked of the host's default
\* device, whatever device was chosen.
DefaultCfgDevice_HostDefault(chosen, host_default) == UnwrapOr(host_default, chosen)

\* live_input.rs 60: dev.default_input_config() asks the device that was chosen.
DefaultCfgDevice(chosen, host_default) == chosen

\* live_input.rs 47-62: AudioDevAndCfg::new(preferred_dev, preferred_cfg).
NewAudioDevAndCfg ==
    /\ pc = "new"
    /\ setup_fn = "live_input"
    /\ IF preferred_dev = None /\ host_default_dev = None
       THEN /\ pc' = "panic_no_input_device"
            /\ UNCHANGED <<dev, cfg_buffer_size, channels, sample_rate_cfg>>
       ELSE LET d == UnwrapOr(preferred_dev, UnwrapOr(host_default_dev, "none"))
            IN  /\ dev' = d
                /\ IF preferred_cfg # None
                   THEN /\ channels' = preferred_cfg[1].channels
                        /\ sample_rate_cfg' = preferred_cfg[1].sample_rate
                        /\ cfg_buffer_size' = preferred_cfg[1].buffer_size
                        /\ pc' = "entry"
                   ELSE \E ok \in BOOLEAN :
                          IF ok
                          THEN /\ channels' = DefaultInputConfig(DefaultCfgDevice(d, host_default_dev)).channels
                               /\ sample_rate_cfg' = DefaultInputConfig(DefaultCfgDevice(d, host_default_dev)).sample_rate
                               /\ cfg_buffer_size' = DefaultInputConfig(DefaultCfgDevice(d, host_default_dev)).buffer_size
                               /\ pc' = "entry"
                          ELSE /\ pc' = "panic_no_default_cfg"
                               /\ UNCHANGED <<cfg_buffer_size, channels,
                                              sample_rate_cfg>>
    /\ UNCHANGED <<frameVars, auxVars, winVars, requested_buffer_size, debug_assertions,
                   transform>>
    /\ UNCHANGED <<sample_rate, audio_buffer_len, snapshot, transformOut,
                   transformCalls, transformArgs, topPlot, btmPlot,
                   storeVars, envVars, cbVars, histVars>>

\* BufferSize::Fixed(128) of the older setup_audio_input_loop.
OldFixedBufferSize == 128

\* live_input_visualize/live_input.rs 24-47: the older setup_audio_input_loop
\* chooses the device and builds its own configuration: one channel,
\* super::SAMPLING_RATE (defined outside the files at hand: a rate of Rates)
\* and a fixed buffer size.
OldSelectInput ==
    /\ pc = "new"
    /\ setup_fn = "live_input_visualize"
    /\ IF preferred_dev = None /\ host_default_dev = None
       THEN /\ pc' = "panic_no_input_device"
            /\ UNCHANGED <<dev, cfg_buffer_size, channels, sample_rate_cfg>>
       ELSE /\ dev' = UnwrapOr(preferred_dev, UnwrapOr(host_default_dev, "none"))
            /\ channels' = 1
            /\ sample_rate_cfg' \in Rates
            /\ cfg_buffer_size' = FixedBuf(OldFixedBufferSize)
            /\ pc' = "entry"
    /\ UNCHANGED <<frameVars, auxVars, winVars, requested_buffer_size, debug_assertions,
                   transform>>
    /\ UNCHANGED <<sample_rate, audio_buffer_len, snapshot, transformOut,
                   transformCalls, transformArgs, topPlot, btmPlot,
                   storeVars, envVars, cbVars, histVars>>

\* mod.rs 113-115: the locals sample_rate, latest_audio_data, audio_buffer_len.
InitStore ==
    /\ pc = "entry"
    /\ sample_rate' = U32AsF32(sample_rate_cfg)
    /\ store' = InitRingbuffer(F32AsUsize(sample_rate'))
    /\ capacity' = RingCapacity(F32AsUsize(sample_rate'))
    /\ audio_buffer_len' = Len(store')
    /\ pc' = "setup_audio"
    /\ UNCHANGED <<frameVars, auxVars, winVars, devVars, cfgVars, snapshot, transformOut, transformCalls, transformArgs,
                   topPlot, btmPlot, lock, envVars, cbVars, histVars>>

\* A faulty request: the buffer size of the given configuration is dropped
\* and the backend's default is asked for.
RequestedBufferSize_AlwaysDefault(buffer_size) == DefaultBuf

\* live_input.rs 129-138 and live_input_visualize/live_input.rs 49-51: the
\* configuration is handed to build_input_stream as it is.
RequestedBufferSize(buffer_size) == buffer_size

\* A faulty setup without the channel assertion: every channel count other
\* than 1 is taken for stereo.
SetupAudioInputLoop_NoChannelCheck ==
    /\ pc = "setup_audio"
    /\ \E ok \in BOOLEAN :
         IF ok THEN /\ stream' = "built"
                    /\ pc' = "play"
               ELSE /\ pc' = "panic_build_stream"
                    /\ UNCHANGED stream
    /\ requested_buffer_size' = RequestedBufferSize(cfg_buffer_size)
    /\ UNCHANGED <<frameVars, auxVars, winVars, dev, cfg_buffer_size, cfgVars, sample_rate, audio_buffer_len, snapshot, transformOut,
                   transformCalls, transformArgs, topPlot, btmPlot,
                   storeVars, windowOpen, keyDown, escPhys, closeReq, cbVars,
                   histVars>>

\* live_input.rs 99-159: the channel assertion, then
\* build_input_stream(audio_dev_and_cfg.cfg(), ..).unwrap().
SetupAudioInputLoop ==
    /\ pc = "setup_audio"
    /\ IF ~(channels = 1 \/ channels = 2)
       THEN /\ pc' = "panic_channels"
            /\ UNCHANGED <<stream, requested_buffer_size>>
       ELSE /\ requested_buffer_size' = RequestedBufferSize(cfg_buffer_size)
            /\ \E ok \in BOOLEAN :
                 IF ok THEN /\ stream' = "built"
                            /\ pc' = "play"
                       ELSE /\ pc' = "panic_build_stream"
                            /\ UNCHANGED stream
    /\ UNCHANGED <<frameVars, auxVars, winVars, dev, cfg_buffer_size, cfgVars, sample_rate, audio_buffer_len, snapshot, transformOut,
                   transformCalls, transformArgs, topPlot, btmPlot,
                   storeVars, windowOpen, keyDown, escPhys, closeReq, cbVars,
                   histVars>>

\* A faulty start: the call of play is left out and the stream stays as built.
StreamPlay_Omitted ==
    /\ pc = "play"
    /\ pc' = "setup_window"
    /\ UNCHANGED <<frameVars, auxVars, winVars, devVars, cfgVars, sample_rate, audio_buffer_len, snapshot, transformOut,
                   transformCalls, transformArgs, topPlot, btmPlot,
                   storeVars, envVars, cbVars, histVars>>

\* mod.rs 121: stream.play().unwrap()
StreamPlay ==
    /\ pc = "play"
    /\ \E ok \in BOOLEAN :
         IF ok THEN /\ stream' = "playing"
                    /\ pc' = "setup_window"
               ELSE /\ pc' = "panic_play"
                    /\ UNCHANGED stream
    /\ UNCHANGED <<frameVars, auxVars, winVars, devVars, cfgVars, sample_rate, audio_buffer_len, snapshot, transformOut,
                   transformCalls, transformArgs, topPlot, btmPlot,
                   storeVars, windowOpen, keyDown, escPhys, closeReq, cbVars,
                   histVars>>

\* visualize_minifb.rs 86-87: Window::new(name, width, height, ..);
\* live_input_visualize/visualize_minifb.rs 61-67: Window::new(name,
\* DEFAULT_W, DEFAULT_H, ..).
WindowNewDims(module, width, height) ==
    IF module = "live_input" THEN <<width, height>> ELSE <<DEFAULT_W, DEFAULT_H>>

\* visualize_minifb.rs 88: -(audio_buffer_len as f64 * time_per_sample)..0.0
XRangeTop(buffer_len) == <<0 - buffer_len, 0>>

\* visualize_minifb.rs 89: -1.0..1.01, in hundredths.
YRangeTop == <<-100, 101>>

\* A faulty default: the preferred x-range is dropped.
XRangeBtm_IgnoresPreferred(preferred, top) == top

\* visualize_minifb.rs 90: preferred_x_range.unwrap_or_else(|| x_range_top.clone())
XRangeBtm(preferred, top) == UnwrapOr(preferred, top)

\* visualize_minifb.rs 91: preferred_y_range.unwrap_or_else(|| y_range_top.clone())
YRangeBtm(preferred, top) == UnwrapOr(preferred, top)

\* mod.rs 122-133: setup_window (Window::new(..).unwrap(), the ranges, the
\* pixel buffer, the drawing areas and axes, the first
\* update_with_buffer(..).unwrap()) and limit_update_rate.
SetupWindow ==
    /\ pc = "setup_window"
    /\ \E ok \in BOOLEAN :
         IF ok THEN LET height == UnwrapOr(preferred_height, DEFAULT_H)
                        width  == UnwrapOr(preferred_width, DEFAULT_W)
                    IN  /\ window_dims' = WindowNewDims(setup_fn, width, height)
                        /\ x_range_top' = XRangeTop(audio_buffer_len)
                        /\ y_range_top' = YRangeTop
                        /\ x_range_btm' = XRangeBtm(preferred_x_range, x_range_top')
                        /\ y_range_btm' = YRangeBtm(preferred_y_range, y_range_top')
                        /\ pixel_buf_len' = width * height
                        /\ area_dims' = <<width, height>>
                        /\ blit_dims' = <<width, height>>
                        /\ windowOpen' = TRUE
                        /\ keyDown' = escPhys
                        /\ pc' = "loop_check"
               ELSE /\ pc' = "panic_window"
                    /\ UNCHANGED <<windowOpen, keyDown, winVars>>
    /\ UNCHANGED <<frameVars, auxVars, devVars, cfgVars, sample_rate, audio_buffer_len, snapshot, transformOut,
                   transformCalls, transformArgs, topPlot, btmPlot,
                   storeVars, stream, escPhys, closeReq, cbVars, histVars>>

\* A faulty loop condition that does not look at the window.
LoopContinues_IgnoresClose == ~keyDown

\* A faulty loop condition that does not look at the Escape key.
LoopContinues_IgnoresKey == windowOpen

\* mod.rs 136-139: while window.is_open() { if window.is_key_down(Escape) { break; } ..
LoopContinues == windowOpen /\ ~keyDown

LoopCheck ==
    /\ pc = "loop_check"
    /\ IF LoopContinues
       THEN /\ pressIters < MaxIters
            /\ transformCalls' = 0
            /\ uiLocks' = 0
            /\ blits' = 0
            /\ pressIters' = IF pressIters >= 0 THEN pressIters + 1 ELSE pressIters
            /\ pc' = "areas"
       ELSE /\ pc' = "pause"
            /\ UNCHANGED <<transformCalls, pressIters, frameVars>>
    /\ UNCHANGED <<auxVars, winVars, devVars, cfgVars, sample_rate, audio_buffer_len, snapshot, transformOut,
                   transformArgs, topPlot, btmPlot, storeVars, envVars, cbVars,
                   hist, cbPre, pressState>>

\* mod.rs 141-145: get_drawing_areas over the pixel buffer.
GetDrawingAreas ==
    /\ pc = "areas"
    /\ area_dims' = <<UnwrapOr(preferred_width, DEFAULT_W),
                      UnwrapOr(preferred_height, DEFAULT_H)>>
    /\ pc' = "restore"
    /\ UNCHANGED <<frameVars, auxVars, window_dims, pixel_buf_len, x_range_top, y_range_top,
                   x_range_btm, y_range_btm, blit_dims, devVars, cfgVars, sample_rate, audio_buffer_len, snapshot, transformOut,
                   transformCalls, transformArgs, topPlot, btmPlot,
                   storeVars, envVars, cbVars, histVars>>

\* mod.rs 147-148: the chart states restored onto the drawing areas.
RestoreCharts ==
    /\ pc = "restore"
    /\ pc' = "fill"
    /\ UNCHANGED <<frameVars, auxVars, winVars, devVars, cfgVars, sample_rate, audio_buffer_len, snapshot, transformOut,
                   transformCalls, transformArgs, topPlot, btmPlot,
                   storeVars, envVars, cbVars, histVars>>

\* mod.rs 151-152: both plotting areas filled with BLACK.
FillPlottingAreas ==
    /\ pc = "fill"
    /\ topPlot' = << >>
    /\ btmPlot' = << >>
    /\ pc' = "lock"
    /\ UNCHANGED <<frameVars, auxVars, winVars, devVars, cfgVars, sample_rate, audio_buffer_len, snapshot, transformOut,
                   transformCalls, transformArgs, storeVars, envVars,
                   cbVars, histVars>>

\* A faulty snapshot that does not wait for the mutex: the UI reads the store
\* whatever the callback is doing.
UiLock_NoMutex ==
    /\ pc = "lock"
    /\ pc' = "copy"
    /\ UNCHANGED <<frameVars, auxVars, winVars, devVars, cfgVars, sample_rate, audio_buffer_len, snapshot, transformOut,
                   transformCalls, transformArgs, topPlot, btmPlot,
                   storeVars, envVars, cbVars, histVars>>

\* mod.rs 155: latest_audio_data.clone().lock().unwrap()
UiLock ==
    /\ pc = "lock"
    /\ lock = "free"
    /\ lock' = "ui"
    /\ pc' = "copy"
    /\ uiLocks' = uiLocks + 1
    /\ UNCHANGED <<blits, auxVars, winVars, devVars, cfgVars, sample_rate, audio_buffer_len, snapshot, transformOut,
                   transformCalls, transformArgs, topPlot, btmPlot,
                   store, capacity, envVars, cbVars, histVars>>

\* A faulty snapshot that takes the elements out of the store and leaves
\* zeroes behind.
UiCopy_Drains ==
    /\ pc = "copy"
    /\ snapshot' = RingToVec(store)
    /\ store' = [i \in 1..Len(store) |-> 0]
    /\ lock' = "free"
    /\ pc' = "paint_top"
    /\ UNCHANGED <<frameVars, auxVars, winVars, devVars, cfgVars, sample_rate, audio_buffer_len, transformOut,
                   transformCalls, transformArgs, topPlot, btmPlot,
                   capacity, envVars, cbVars, histVars>>

\* A faulty snapshot whose guard is bound to a local of the iteration: the
\* mutex stays locked after the copy.
UiCopy_KeepsGuard ==
    /\ pc = "copy"
    /\ snapshot' = RingToVec(store)
    /\ pc' = "paint_top"
    /\ UNCHANGED <<frameVars, auxVars, winVars, devVars, cfgVars, sample_rate, audio_buffer_len, transformOut,
                   transformCalls, transformArgs, topPlot, btmPlot,
                   storeVars, envVars, cbVars, histVars>>

\* mod.rs 155: .to_vec(); the guard is a temporary of the statement and is
\* dropped at its end.
UiCopy ==
    /\ pc = "copy"
    /\ snapshot' = RingToVec(store)
    /\ lock' = "free"
    /\ pc' = "paint_top"
    /\ UNCHANGED <<frameVars, auxVars, winVars, devVars, cfgVars, sample_rate, audio_buffer_len, transformOut,
                   transformCalls, transformArgs, topPlot, btmPlot,
                   store, capacity, envVars, cbVars, histVars>>

\* fill_chart_waveform_over_time's debug_assert_eq!(audio_data.len(), audio_history_buf_len)
LengthAssertFails(audio_data, audio_history_buf_len) ==
    debug_assertions /\ Len(audio_data) # audio_history_buf_len

\* A faulty iteration that goes from the top chart straight to the blit.
PaintTop_SkipsBottom ==
    /\ pc = "paint_top"
    /\ topPlot' = Append(topPlot, WaveformPoints(snapshot, audio_buffer_len))
    /\ pc' = "blit"
    /\ UNCHANGED <<frameVars, auxVars, winVars, devVars, cfgVars, sample_rate,
                   audio_buffer_len, snapshot, transformOut, transformCalls,
                   transformArgs, btmPlot, storeVars, envVars, cbVars, histVars>>

\* mod.rs 156-161: the top chart painted from the snapshot.
PaintTop ==
    /\ pc = "paint_top"
    /\ IF LengthAssertFails(snapshot, audio_buffer_len)
       THEN /\ pc' = "panic_top_len"
            /\ UNCHANGED topPlot
       ELSE /\ topPlot' = Append(topPlot, WaveformPoints(snapshot, audio_buffer_len))
            /\ pc' = "transform"
    /\ UNCHANGED <<frameVars, auxVars, winVars, devVars, cfgVars, sample_rate, audio_buffer_len, snapshot, transformOut,
                   transformCalls, transformArgs, btmPlot, storeVars,
                   envVars, cbVars, histVars>>

\* A faulty dispatch that hands the transform the store as it is now instead
\* of the frame's snapshot.
RunTransform_ReadsStore ==
    /\ pc = "transform"
    /\ transformOut' = IF transform.kind = "Basic"
                       THEN ApplyBasic(transform.fn, RingToVec(store), sample_rate)
                       ELSE ApplyComplex(transform.fn, RingToVec(store), sample_rate)
    /\ transformCalls' = transformCalls + 1
    /\ transformArgs' = <<transform.kind, RingToVec(store), sample_rate>>
    /\ pc' = "paint_btm"
    /\ UNCHANGED <<frameVars, auxVars, winVars, devVars, cfgVars, sample_rate, audio_buffer_len, snapshot, topPlot,
                   btmPlot, storeVars, envVars, cbVars, histVars>>

\* mod.rs 162-163 and 165-166: let data = fnc(&latest_audio_data, sample_rate)
RunTransform ==
    /\ pc = "transform"
    /\ transformOut' = IF transform.kind = "Basic"
                       THEN ApplyBasic(transform.fn, snapshot, sample_rate)
                       ELSE ApplyComplex(transform.fn, snapshot, sample_rate)
    /\ transformCalls' = transformCalls + 1
    /\ transformArgs' = <<transform.kind, snapshot, sample_rate>>
    /\ pc' = "paint_btm"
    /\ UNCHANGED <<frameVars, auxVars, winVars, devVars, cfgVars, sample_rate, audio_buffer_len, snapshot, topPlot,
                   btmPlot, storeVars, envVars, cbVars, histVars>>

\* mod.rs 164 and 167: the bottom chart painted from the transform's result.
PaintBtm ==
    /\ pc = "paint_btm"
    /\ IF transform.kind = "Basic"
       THEN IF LengthAssertFails(transformOut, audio_buffer_len)
            THEN /\ pc' = "panic_btm_len"
                 /\ UNCHANGED btmPlot
            ELSE /\ btmPlot' = Append(btmPlot,
                                      WaveformPoints(transformOut, audio_buffer_len))
                 /\ pc' = "blit"
       ELSE /\ btmPlot' = Append(btmPlot, ComplexPoints(transformOut))
            /\ pc' = "blit"
    /\ UNCHANGED <<frameVars, auxVars, winVars, devVars, cfgVars, sample_rate, audio_buffer_len, snapshot, transformOut,
                   transformCalls, transformArgs, topPlot, storeVars,
                   envVars, cbVars, histVars>>

\* mod.rs 183-190: window.update_with_buffer(..).unwrap(); the window handles
\* its pending events here, so the key and close state are those of this moment.
\* The iteration ends: its locals latest_audio_data and data are dropped.
Blit ==
    /\ pc = "blit"
    /\ \E ok \in BOOLEAN :
         IF ok THEN /\ keyDown' = escPhys
                    /\ windowOpen' = ~closeReq
                    /\ pressState' = IF pressState = "pressed" THEN "seen"
                                     ELSE pressState
                    /\ pc' = "loop_check"
               ELSE /\ pc' = "panic_update"
                    /\ UNCHANGED <<keyDown, windowOpen, pressState>>
    /\ blits' = blits + 1
    /\ blit_dims' = <<UnwrapOr(preferred_width, DEFAULT_W),
                      UnwrapOr(preferred_height, DEFAULT_H)>>
    /\ snapshot' = << >>
    /\ transformOut' = << >>
    /\ transformArgs' = << >>
    /\ UNCHANGED <<uiLocks, auxVars, window_dims, pixel_buf_len, x_range_top, y_range_top,
                   x_range_btm, y_range_btm, area_dims, devVars, cfgVars, sample_rate, audio_buffer_len,
                   transformCalls, topPlot, btmPlot,
                   storeVars, stream, escPhys, closeReq, cbVars, hist, cbPre,
                   pressIters>>

\* mod.rs 191: stream.pause().unwrap()
StreamPause ==
    /\ pc = "pause"
    /\ \E ok \in BOOLEAN :
         IF ok THEN /\ stream' = "paused"
                    /\ pc' = "returned"
               ELSE /\ pc' = "panic_pause"
                    /\ UNCHANGED stream
    /\ UNCHANGED <<frameVars, auxVars, winVars, devVars, cfgVars, sample_rate, audio_buffer_len, snapshot, transformOut,
                   transformCalls, transformArgs, topPlot, btmPlot,
                   storeVars, windowOpen, keyDown, escPhys, closeReq, cbVars,
                   histVars>>

\* ---------------------------------------------------------------- the user
PressEscape ==
    /\ pc \in LoopPcs
    /\ ~escPhys
    /\ escPhys' = TRUE
    /\ pressState' = IF pressState = "none" THEN "pressed" ELSE pressState
    /\ pressIters' = IF pressState = "none" THEN 0 ELSE pressIters
    /\ UNCHANGED <<frameVars, auxVars, winVars, devVars, cfgVars, uiVars, storeVars, stream, windowOpen, keyDown,
                   closeReq, cbVars, hist, cbPre>>

ReleaseEscape ==
    /\ pc \in LoopPcs
    /\ escPhys
    /\ escPhys' = FALSE
    /\ pressState' = IF pressState = "pressed" THEN "missed" ELSE pressState
    /\ UNCHANGED <<frameVars, auxVars, winVars, devVars, cfgVars, uiVars, storeVars, stream, windowOpen, keyDown,
                   closeReq, cbVars, hist, cbPre, pressIters>>

CloseWindow ==
    /\ pc \in LoopPcs
    /\ ~closeReq
    /\ closeReq' = TRUE
    /\ UNCHANGED <<frameVars, auxVars, winVars, devVars, cfgVars, uiVars, storeVars, stream, windowOpen, keyDown,
                   escPhys, cbVars, histVars>>

\* ---------------------------------------------------- the backend's thread
\* live_input.rs 127: let is_mono = cfg.channels == 1
IsMono == channels = 1

\* The backend calls the data callback with the next buffer of the device.
CbDeliver ==
    /\ stream = "playing"
    /\ pc \notin EndPcs
    /\ cbPc = "idle"
    /\ \E n \in 0..MaxBufLen :
         /\ delivered + n <= MaxDelivered
         /\ cbData' = DeviceBuffer(delivered, n)
         /\ delivered' = delivered + n
    /\ cbPc' = "lock"
    /\ UNCHANGED <<frameVars, auxVars, winVars, devVars, cfgVars, uiVars, storeVars, envVars, cbIdx, histVars>>

\* live_input.rs 143: let mut audio_buf = latest_audio_data.lock().unwrap()
CbLock ==
    /\ cbPc = "lock"
    /\ lock = "free"
    /\ lock' = "cb"
    /\ cbIdx' = 0
    /\ cbPre' = store
    /\ cbPc' = "extend"
    /\ UNCHANGED <<frameVars, auxVars, winVars, devVars, cfgVars, uiVars, store, capacity, envVars, cbData, delivered,
                   hist, pressState, pressIters>>

\* live_input.rs 145-150: extend pushes the iterator's next item.
CbPush ==
    /\ cbPc = "extend"
    /\ cbIdx < Len(CallbackItems(cbData, IsMono))
    /\ store' = RingPush(store, CallbackItems(cbData, IsMono)[cbIdx + 1], capacity)
    /\ cbIdx' = cbIdx + 1
    /\ UNCHANGED <<frameVars, auxVars, winVars, devVars, cfgVars, uiVars, capacity, lock, envVars, cbPc, cbData,
                   delivered, histVars>>

\* A faulty callback that returns without dropping its guard.
CbReturn_KeepsGuard ==
    /\ cbPc = "extend"
    /\ cbIdx = Len(CallbackItems(cbData, IsMono))
    /\ hist' = hist \o CallbackItems(cbData, IsMono)
    /\ cbPc' = "idle"
    /\ cbData' = << >>
    /\ cbIdx' = 0
    /\ cbPre' = << >>
    /\ UNCHANGED <<frameVars, auxVars, winVars, devVars, cfgVars, uiVars, store, capacity, lock, envVars, delivered,
                   pressState, pressIters>>

\* live_input.rs 151: the iterator is exhausted, the closure returns and its
\* guard is dropped.
CbReturn ==
    /\ cbPc = "extend"
    /\ cbIdx = Len(CallbackItems(cbData, IsMono))
    /\ lock' = "free"
    /\ hist' = hist \o CallbackItems(cbData, IsMono)
    /\ cbPc' = "idle"
    /\ cbData' = << >>
    /\ cbIdx' = 0
    /\ cbPre' = << >>
    /\ UNCHANGED <<frameVars, auxVars, winVars, devVars, cfgVars, uiVars, store, capacity, envVars, delivered,
                   pressState, pressIters>>

\* live_input.rs 152-154: |err| { eprintln!("got stream error: {:#?}", err); }
\* live_input_visualize/live_input.rs 58: |_err| {}
\* The backend calls the error callback on its thread, between data callbacks.
CbError ==
    /\ stream = "playing"
    /\ pc \notin EndPcs
    /\ cbPc = "idle"
    /\ errors < MaxErrors
    /\ errors' = errors + 1
    /\ errLog' = IF setup_fn = "live_input" THEN errLog + 1 ELSE errLog
    /\ UNCHANGED <<frameVars, cfgVars, uiVars, storeVars, envVars, cbVars, histVars,
                   setup_fn, hostVars, winArgs, staticVars, winVars, devVars>>

\* ------------------------------------------------------- the specification
\* The pipeline with a user who closes the window or not, and keeps off the
\* keyboard.
Next ==
    \/ InitStore
    \/ SetupAudioInputLoop
    \/ StreamPlay
    \/ SetupWindow
    \/ LoopCheck
    \/ GetDrawingAreas
    \/ RestoreCharts
    \/ FillPlottingAreas
    \/ UiLock
    \/ UiCopy
    \/ PaintTop
    \/ RunTransform
    \/ PaintBtm
    \/ Blit
    \/ StreamPause
    \/ CloseWindow
    \/ CbDeliver
    \/ CbLock
    \/ CbPush
    \/ CbReturn

Spec == Init /\ [][Next]_vars

\* ------------------------------------------------- stores of several sizes
\* The live pipeline with a Basic transform on one-channel streams of the
\* sampling rates PaintRates, whose stores hold 8, 16 and 32 samples.
InitRates ==
    /\ InitFor(PaintRates, {1}, BOOLEAN,
               {[kind |-> "Basic", fn |-> f] : f \in BasicFns})
    /\ InitErrFor({"live_input"})
    /\ InitNoCall
    /\ InitDevSelected
    /\ InitWinFor({None}, {None}, {None}, {None})

SpecRates == InitRates /\ [][Next]_vars

\* ---------------------------------------------------------- fair scheduling
\* The live pipeline with the identity transform on one- and two-channel
\* streams.
InitFair ==
    /\ InitFor(Rates, {1, 2}, {FALSE}, {[kind |-> "Basic", fn |-> "identity"]})
    /\ InitErrFor({"live_input"})
    /\ InitNoCall
    /\ InitDevSelected
    /\ InitWinFor({None}, {None}, {None}, {None})

\* Fair scheduling of the two threads.  A thread that can take a step that
\* waits for nothing takes it: the steps of a frame up to the lock and the copy
\* under the lock on the UI thread, the pushes and the return of the callback.
\* Mutex::lock blocks while the other side holds the guard, so a thread that
\* finds the mutex free again and again gets it in the end (strong fairness).
\* Nothing is assumed of the device: it may stop delivering buffers.
Fairness ==
    /\ WF_vars(GetDrawingAreas)
    /\ WF_vars(RestoreCharts)
    /\ WF_vars(FillPlottingAreas)
    /\ SF_vars(UiLock)
    /\ WF_vars(UiCopy)
    /\ SF_vars(CbLock)
    /\ WF_vars(CbPush)
    /\ WF_vars(CbReturn)

SpecFair == InitFair /\ [][Next]_vars /\ Fairness

\* The pipeline with a user who also presses and releases Escape, for one
\* stream configuration and transform (neither is read by the key handling).
InitKeys ==
    /\ InitFor(Rates, {1}, {TRUE}, {[kind |-> "Basic", fn |-> "identity"]})
    /\ InitErrFor({"live_input"})
    /\ InitNoCall
    /\ InitDevSelected
    /\ InitWinFor({None}, {None}, {None}, {None})

NextKeys ==
    \/ Next
    \/ PressEscape
    \/ ReleaseEscape

SpecKeys == InitKeys /\ [][NextKeys]_vars

\* The pipeline of a mono stream built by either setup_audio_input_loop, with
\* a device that reports stream errors.
InitErr ==
    /\ InitFor(Rates, {1}, {TRUE}, {[kind |-> "Basic", fn |-> "identity"]})
    /\ InitErrFor(SetupFns)
    /\ InitNoCall
    /\ InitDevSelected
    /\ InitWinFor({None}, {None}, {None}, {None})

NextErr ==
    \/ Next
    \/ CbError

SpecErr == InitErr /\ [][NextErr]_vars

\* The pipeline of a mono stream for every combination of present and absent
\* window arguments, with the setup_window of either module.
InitWin ==
    /\ InitFor(Rates, {1}, {TRUE}, {[kind |-> "Basic", fn |-> "identity"]})
    /\ InitErrFor(SetupFns)
    /\ InitNoCall
    /\ InitHostFor({"alsa"}, {64}, {Some("mic")}, {None},
                   {Some([channels |-> channels, sample_rate |-> sample_rate_cfg,
                          buffer_size |-> DefaultBuf])})
    /\ dev = "mic"
    /\ cfg_buffer_size = DefaultBuf
    /\ requested_buffer_size = NoBuf
    /\ InitWinFor(Option(PreferredHeights), Option(PreferredWidths),
                  Option(PreferredXRanges), Option(PreferredYRanges))

SpecWin == InitWin /\ [][Next]_vars

\* The selection of device and configuration and the request of the stream,
\* for every host, AudioDevAndCfg::new's four present/absent combinations of
\* its arguments, and both setup functions: the run ends when
\* setup_audio_input_loop has returned the stream.
InitDev ==
    /\ pc = "new"
    /\ channels = 0 /\ sample_rate_cfg = 0
    /\ debug_assertions = TRUE
    /\ transform = [kind |-> "Basic", fn |-> "identity"]
    /\ sample_rate = 0 /\ audio_buffer_len = 0
    /\ snapshot = << >> /\ transformOut = << >>
    /\ transformCalls = 0 /\ transformArgs = << >>
    /\ topPlot = << >> /\ btmPlot = << >>
    /\ uiLocks = 0 /\ blits = 0
    /\ store = << >> /\ capacity = 0 /\ lock = "free"
    /\ stream = "none" /\ windowOpen = FALSE /\ keyDown = FALSE
    /\ escPhys = FALSE /\ closeReq = FALSE
    /\ cbPc = "idle" /\ cbData = << >> /\ cbIdx = 0 /\ delivered = 0
    /\ hist = << >> /\ cbPre = << >>
    /\ pressState = "none" /\ pressIters = -1
    /\ InitErrFor(SetupFns)
    /\ InitNoCall
    /\ InitHostFor(Backends, DevMinBufs, Option(Devices), Option(Devices),
                   Option(PreferredCfgs))
    /\ dev = "none"
    /\ cfg_buffer_size = NoBuf
    /\ requested_buffer_size = NoBuf
    /\ InitWinFor({None}, {None}, {None}, {None})

NextDev ==
    \/ NewAudioDevAndCfg
    \/ OldSelectInput
    \/ InitStore
    \/ SetupAudioInputLoop

SpecDev == InitDev /\ [][NextDev]_vars

\* The capacity of the store as a function of the configured sampling rate:
\* the rates are drawn from ProbeRates, and the store's elements (up to 2^30
\* of them) are not built.
ProbeRates == (0..48) \cup {8000, 11025, 16000, 22050, 44100, 48000, 88200, 96000,
                           192000, 384000, 768000}
                      \cup {16777215, 16777216, 16777217, 16777218, 16777219,
                            26843545, 26843546, 53687091, 53687093,
                            107374181, 107374182, 107374183}

InitCap ==
    /\ InitFor(ProbeRates, {1}, {TRUE}, {[kind |-> "Basic", fn |-> "identity"]})
    /\ InitErrFor({"live_input"})
    /\ InitNoCall
    /\ InitDevSelected
    /\ InitWinFor({None}, {None}, {None}, {None})

\* mod.rs 113-114 and 197: the local sample_rate and the capacity handed to
\* AllocRingBuffer::new.
AllocStore ==
    /\ pc = "entry"
    /\ sample_rate' = U32AsF32(sample_rate_cfg)
    /\ capacity' = RingCapacity(F32AsUsize(sample_rate'))
    /\ pc' = "allocated"
    /\ UNCHANGED <<frameVars, auxVars, winVars, devVars, cfgVars, audio_buffer_len, snapshot, transformOut,
                   transformCalls, transformArgs, topPlot, btmPlot, store, lock,
                   envVars, cbVars, histVars>>

NextCap == AllocStore

SpecCap == InitCap /\ [][NextCap]_vars

\* ================================================= the static PNG renderers
\* Everything of the live pipeline: a static renderer touches none of it.
liveVars == <<frameVars, cfgVars, uiVars, storeVars, envVars, cbVars, histVars, errVars,
              hostVars, winArgs, devVars, winVars>>

\* The live pipeline is not running.
InitLiveIdle ==
    /\ InitFor({1}, {1}, {TRUE}, {[kind |-> "Basic", fn |-> "identity"]})
    /\ InitErrFor({"live_input"})
    /\ InitDevSelected
    /\ InitWinFor({None}, {None}, {None}, {None})

\* ------------------------------------------------------------ f32 values
\* An f32 magnitude: NaN or a number (the numbers used are small integers,
\* which f32 holds exactly).
NaN == [nan |-> TRUE, v |-> 0]
Num(v) == [nan |-> FALSE, v |-> v]

\* f.is_nan()
IsNan(f) == f.nan

\* a > b and a < b on f32: false when either side is NaN.
FGt(a, b) == ~a.nan /\ ~b.nan /\ a.v > b.v
FLt(a, b) == ~a.nan /\ ~b.nan /\ a.v < b.v

\* a - b on f32.
FSub(a, b) == IF a.nan \/ b.nan THEN NaN ELSE Num(a.v - b.v)

\* (num / den) as usize for the real number num / den, den > 0: the cast
\* truncates towards zero and saturates at 0.
F64AsUsize(num, den) == IF num <= 0 THEN 0 ELSE num \div den

\* ------------------------------------------------- the spectrum renderers
\* A frequency spectrum is the sequence of a BTreeMap's magnitudes in the order
\* of its keys; the key of the i-th entry (from 1) is SpectrumKey(i).
SpectrumKey(i) == 10 * (i - 1)

SpectrumImageWidth == 5000
SpectrumImageHeight == 3000

\* frequency_spectrum.iter().any(|(_, f)| f.is_nan())
AnyNan(spectrum) == \E i \in 1..Len(spectrum) : IsNan(spectrum[i])

\* let mut max = 0.0; for mag in .. { if *mag > max { max = *mag; } }
RECURSIVE FindMaxFrom(_, _, _)
FindMaxFrom(spectrum, i, max) ==
    IF i > Len(spectrum) THEN max
    ELSE FindMaxFrom(spectrum, i + 1, IF FGt(spectrum[i], max) THEN spectrum[i] ELSE max)

FindMax(spectrum) == FindMaxFrom(spectrum, 1, Num(0))

\* (mag / max * image_height as f32) as usize.  max is a number >= 0, and
\* mag <= max whenever mag > 0, so the quotient of a positive mag is at most 1;
\* NaN (from a NaN mag or 0 / 0) and negative values, -inf included, cast to 0.
BarHeight(mag, max, image_height) ==
    IF mag.nan \/ max.v = 0 THEN 0
    ELSE F64AsUsize(mag.v * image_height, max.v)

\* (i as f64 * x_step) as usize with x_step = image_width as f64 / len as f64.
BarX(i, len, image_width) == F64AsUsize(i * image_width, len)

\* The bars drawn into rgb_img: for each entry its column and its height.
SpectrumBars(spectrum, image_width, image_height) ==
    LET max == FindMax(spectrum)
    IN  [i \in 1..Len(spectrum) |->
            [x |-> BarX(i - 1, Len(spectrum), image_width),
             h |-> BarHeight(spectrum[i], max, image_height)]]

\* rgb_img[image_height - 1 - j][x] for j in 0..h is inside the image.
BarsInImage(bars, image_width, image_height) ==
    \A i \in 1..Len(bars) : bars[i].x < image_width /\ bars[i].h <= image_height

\* The image of the basic renderers (the colours are not modelled).
SpectrumImage(spectrum, image_width, image_height) ==
    [kind |-> "bars", width |-> image_width, height |-> image_height,
     content |-> SpectrumBars(spectrum, image_width, image_height)]

\* The image plotters draws: a chart of the given size with one line series.
ChartImage(width, height, series) ==
    [kind |-> "chart", width |-> width, height |-> height, content |-> series]

\* The file written by a call of the given name.
File(name, image) == [name |-> name, image |-> image]

\* spectrum/png_file.rs 8-65: spectrum_static_png_visualize.
SpectrumStaticPngVisualize ==
    /\ call.fn = "spectrum::png_file"
    /\ outcome = "none"
    /\ IF AnyNan(call.data)
       THEN \* 15-18: assert!(no NaN)
            /\ outcome' = "panicked"
            /\ UNCHANGED <<dir_exists, dir_created, written>>
       ELSE LET image == SpectrumImage(call.data, SpectrumImageWidth, SpectrumImageHeight)
            IN  IF ~BarsInImage(image.content, SpectrumImageWidth, SpectrumImageHeight)
                THEN \* 51-54: index out of bounds
                     /\ outcome' = "panicked"
                     /\ UNCHANGED <<dir_exists, dir_created, written>>
                ELSE \* 58-64: the directory is created when missing, the file written
                     /\ dir_created' = ~dir_exists
                     /\ dir_exists' = TRUE
                     /\ written' = Append(written, File(call.filename, image))
                     /\ outcome' = "returned"
    /\ UNCHANGED <<call, ret, liveVars>>

\* What plotters does with a drawing whose unwraps the renderer relies on:
\* the drawing succeeds and the file is saved, or a plotters call fails and
\* the renderer panics, with the file saved or not when the backend is dropped.
PlottersResults == {"saved", "panic_saved", "panic_unsaved"}

\* The call's effects for a result of plotters on the given image; a missing
\* directory makes saving the file fail.
PlottersDraw(res, name, image) ==
    /\ outcome' = IF res = "saved" /\ dir_exists' THEN "returned" ELSE "panicked"
    /\ written' = IF res \in {"saved", "panic_saved"} /\ dir_exists'
                  THEN Append(written, File(name, image)) ELSE written

\* The width and height of the chart of spectrum/plotters_png_file.rs 34-42.
SpectrumChartWidth(len) == IF len < 700 THEN 700 ELSE len
SpectrumChartHeight(len) == 700

\* spectrum/plotters_png_file.rs 7-78: spectrum_static_plotters_png_visualize.
SpectrumStaticPlottersPngVisualize ==
    /\ call.fn = "spectrum::plotters_png_file"
    /\ outcome = "none"
    /\ IF AnyNan(call.data)
       THEN \* 13: assert!(no NaN)
            /\ outcome' = "panicked"
            /\ UNCHANGED <<dir_exists, dir_created, written>>
       ELSE IF Len(call.data) < 2
       THEN \* 23-28: skip(len - 2) overflows or last() is None
            /\ outcome' = "panicked"
            /\ UNCHANGED <<dir_exists, dir_created, written>>
       ELSE \* 44-77: the chart
            /\ UNCHANGED <<dir_exists, dir_created>>
            /\ \E res \in PlottersResults :
                 PlottersDraw(res, call.filename,
                              ChartImage(SpectrumChartWidth(Len(call.data)),
                                         SpectrumChartHeight(Len(call.data)),
                                         call.data))
    /\ UNCHANGED <<call, ret, liveVars>>

\* staticc 23-27: the sorted magnitudes of a spectrum without NaN.
RECURSIVE SortedMags(_)
SortedMags(spectrum) ==
    IF spectrum = << >> THEN << >>
    ELSE LET m == CHOOSE i \in 1..Len(spectrum) :
                      \A j \in 1..Len(spectrum) : spectrum[i].v <= spectrum[j].v
             rest == [k \in 1..(Len(spectrum) - 1) |->
                         IF k < m THEN spectrum[k] ELSE spectrum[k + 1]]
         IN  <<spectrum[m]>> \o SortedMags(rest)

\* staticc 21-31: the values `median` can take; the empty set when the
\* computation panics (index out of bounds on an empty spectrum).  With a NaN
\* among the magnitudes, partial_cmp(..).unwrap_or(Equal) is no total order:
\* the order of the sorted vector is unspecified, any magnitude can be at its
\* middle.
Medians(spectrum, normalize_to_median) ==
    IF ~normalize_to_median THEN {Num(0)}
    ELSE IF spectrum = << >> THEN {}
    ELSE IF AnyNan(spectrum) THEN {spectrum[i] : i \in 1..Len(spectrum)}
    ELSE {SortedMags(spectrum)[(Len(spectrum) \div 2) + 1]}

\* sort_by is allowed to panic when the comparison is not a total order.
SortMayPanic(spectrum, normalize_to_median) ==
    normalize_to_median /\ AnyNan(spectrum)

\* staticc 33-40: normalized_frequency_spectrum.
Normalized(spectrum, median) ==
    [i \in 1..Len(spectrum) |->
        IF FLt(spectrum[i], Num(0)) THEN Num(0) ELSE FSub(spectrum[i], median)]

\* spectrum/staticc/png_file.rs 8-81: spectrum_static_png_visualize.
StaticcSpectrumStaticPngVisualize ==
    /\ call.fn = "spectrum::staticc::png_file"
    /\ outcome = "none"
    /\ UNCHANGED <<dir_exists, dir_created>>
    /\ \/ \* 27-28: the sort or the index panics
          /\ \/ Medians(call.data, call.flag) = {}
             \/ SortMayPanic(call.data, call.flag)
          /\ outcome' = "panicked"
          /\ UNCHANGED written
       \/ \E median \in Medians(call.data, call.flag) :
            LET image == SpectrumImage(Normalized(call.data, median),
                                       SpectrumImageWidth, SpectrumImageHeight)
            IN  IF /\ BarsInImage(image.content, SpectrumImageWidth, SpectrumImageHeight)
                   /\ dir_exists
                THEN \* 77-80: the file is written
                     /\ written' = Append(written, File(call.filename, image))
                     /\ outcome' = "returned"
                ELSE \* 69-72: index out of bounds; util/png.rs 30: File::create
                     /\ outcome' = "panicked"
                     /\ UNCHANGED written
    /\ UNCHANGED <<call, ret, liveVars>>

\* The width and height of the chart of spectrum/staticc/plotters_png_file.rs 55-63.
StaticcSpectrumChartWidth(len) == IF len < 300 THEN 300 ELSE len
StaticcSpectrumChartHeight(len) ==
    IF StaticcSpectrumChartWidth(len) < 1000
    THEN (StaticcSpectrumChartWidth(len) * 10) \div 8 ELSE 1000

\* spectrum/staticc/plotters_png_file.rs 8-: spectrum_static_plotters_png_visualize.
StaticcSpectrumStaticPlottersPngVisualize ==
    /\ call.fn = "spectrum::staticc::plotters_png_file"
    /\ outcome = "none"
    /\ UNCHANGED <<dir_exists, dir_created>>
    /\ \/ \* 21-22: the sort or the index panics; 44-49: fewer than two entries
          /\ \/ Medians(call.data, call.flag) = {}
             \/ SortMayPanic(call.data, call.flag)
             \/ Len(call.data) < 2
          /\ outcome' = "panicked"
          /\ UNCHANGED written
       \/ /\ Len(call.data) >= 2
          /\ \E median \in Medians(call.data, call.flag), res \in PlottersResults :
               PlottersDraw(res, call.filename,
                            ChartImage(StaticcSpectrumChartWidth(Len(call.data)),
                                       StaticcSpectrumChartHeight(Len(call.data)),
                                       Normalized(call.data, median)))
    /\ UNCHANGED <<call, ret, liveVars>>

\* ------------------------------------------------------ the channel helper
\* lib.rs 77-86: the loop over the samples of an LRLR buffer, from index i
\* (from 1) on.
RECURSIVE SplitLRLR(_, _, _, _, _)
SplitLRLR(interleaved_data, i, is_left, left_data, right_data) ==
    IF i > Len(interleaved_data) THEN <<left_data, right_data>>
    ELSE IF is_left
    THEN SplitLRLR(interleaved_data, i + 1, ~is_left,
                   Append(left_data, interleaved_data[i]), right_data)
    ELSE SplitLRLR(interleaved_data, i + 1, ~is_left,
                   left_data, Append(right_data, interleaved_data[i]))

\* A faulty split point of an LLRR buffer: the middle rounded up.
HalfLen_RoundedUp(n) == (n + 1) \div 2

\* lib.rs 89 and 92: n / 2
HalfLen(n) == n \div 2

\* lib.rs 88-94: take(n / 2) and skip(n / 2).
SplitLLRR(interleaved_data) ==
    LET n == Len(interleaved_data)
    IN  <<SubSeq(interleaved_data, 1, HalfLen(n)),
          SubSeq(interleaved_data, HalfLen(n) + 1, n)>>

\* lib.rs 73-98: ChannelInterleavement::to_channel_data, <<left, right>>.
ToChannelData(interleavement, interleaved_data) ==
    IF interleavement = "LRLR"
    THEN SplitLRLR(interleaved_data, 1, TRUE, << >>, << >>)
    ELSE SplitLLRR(interleaved_data)

\* A call of to_channel_data.
CallToChannelData ==
    /\ call.fn = "to_channel_data"
    /\ outcome = "none"
    /\ ret' = ToChannelData(call.channels, call.data)
    /\ outcome' = "returned"
    /\ UNCHANGED <<call, dir_exists, dir_created, written, liveVars>>

\* ------------------------------------------------- the waveform renderers
I16_MAX == 32767
I16_MIN == -32768

WaveformImageWidth == 1500
WaveformImageHeight == 200
StaticcWaveformImageWidth == 5000
StaticcWaveformImageHeight == 1000

\* The result of a renderer: whether it panicked, and the files it wrote.
Done(files) == [panicked |-> FALSE, files |-> files]
Panic(files) == [panicked |-> TRUE, files |-> files]

\* (sample_index as f64 * width_per_sample) as usize, with
\* width_per_sample = image_width as f64 / samples.len() as f64.
WaveformX(sample_index, len, image_width) ==
    F64AsUsize(sample_index * image_width, len)

\* waveform/png_file.rs 75-76:
\* ((image_height / 2) as f64 + (sample * -1.0) * height_per_max_amplitude) as usize
\* with height_per_max_amplitude = image_height / 2 / i16::MAX.
WaveformY(sample_value, image_height) ==
    F64AsUsize((image_height \div 2) * (I16_MAX - sample_value), I16_MAX)

\* waveform/staticc/png_file/mod.rs 57: the same without the change of sign.
StaticcWaveformY(sample_value, image_height) ==
    F64AsUsize((image_height \div 2) * (I16_MAX + sample_value), I16_MAX)

\* A faulty renderer without the correction of the row.
LastRow_Uncorrected(y, image_height) == y

\* if y == image_height { y -= 1; }
LastRow(y, image_height) == IF y = image_height THEN y - 1 ELSE y

\* The pixels the current basic renderer sets, <<x, y>> for each sample in order.
WaveformPixels(samples) ==
    [i \in 1..Len(samples) |->
        <<WaveformX(i - 1, Len(samples), WaveformImageWidth),
          LastRow(WaveformY(samples[i], WaveformImageHeight), WaveformImageHeight)>>]

\* The pixels the older basic renderer sets.
StaticcWaveformPixels(samples) ==
    [i \in 1..Len(samples) |->
        <<WaveformX(i - 1, Len(samples), StaticcWaveformImageWidth),
          LastRow(StaticcWaveformY(samples[i], StaticcWaveformImageHeight),
                  StaticcWaveformImageHeight)>>]

\* image[y][x] is inside the image for every pixel.
PixelsInImage(pixels, image_width, image_height) ==
    \A i \in 1..Len(pixels) : pixels[i][1] < image_width /\ pixels[i][2] < image_height

\* The image of a basic waveform renderer.
WaveformImage(pixels, image_width, image_height) ==
    [kind |-> "pixels", width |-> image_width, height |-> image_height,
     content |-> pixels]

\* The mono part of a basic renderer: the pixels are set (image[y][x] panics
\* out of bounds), then the file is created (which panics in a missing
\* directory) and written.
MonoBasic(pixels, image_width, image_height, filename, dir_ok) ==
    IF PixelsInImage(pixels, image_width, image_height) /\ dir_ok
    THEN Done(<<File(filename, WaveformImage(pixels, image_width, image_height))>>)
    ELSE Panic(<< >>)

\* The mono part of a plotters renderer for a result of plotters.
MonoPlotters(res, width, height, samples, filename, dir_ok) ==
    [panicked |-> ~(res = "saved" /\ dir_ok),
     files |-> IF res \in {"saved", "panic_saved"} /\ dir_ok
               THEN <<File(filename, ChartImage(width, height, samples))>>
               ELSE << >>]

\* A faulty name of the left channel's file: the given name.
LeftName_Unprefixed(filename) == filename

\* &format!("left_{}", filename) and &format!("right_{}", filename)
LeftName(filename) == "left_" \o filename
RightName(filename) == "right_" \o filename

\* assert_eq!(0, samples.len() % 2, ..)
StereoLenOk(samples) == Len(samples) % 2 = 0

\* The head every waveform renderer shares (waveform/png_file.rs 41-61): a
\* stereo buffer of odd length panics; one of even length is split and each
\* channel rendered as Mono by a call of the renderer itself, first the left
\* one, then the right one, and nothing else is rendered.  mono, left and
\* right are the results of the renderer's mono part on the buffer and on the
\* two channels.
Render(samples, chans, mono, left, right) ==
    IF chans # "Mono"
    THEN IF ~StereoLenOk(samples) THEN Panic(<< >>)
         ELSE IF left.panicked THEN left
         ELSE [panicked |-> right.panicked, files |-> left.files \o right.files]
    ELSE mono

\* The left and right channel of the call's buffer.
Left == ToChannelData(call.channels, call.data)[1]
Right == ToChannelData(call.channels, call.data)[2]

\* The call ends with the given result.
Finish(result) ==
    /\ outcome' = IF result.panicked THEN "panicked" ELSE "returned"
    /\ written' = written \o result.files

\* waveform/png_file.rs 33-90: waveform_static_png_visualize.
WaveformStaticPngVisualize ==
    /\ call.fn = "waveform::png_file"
    /\ outcome = "none"
    /\ LET Mono(samples, filename) ==
               MonoBasic(WaveformPixels(samples), WaveformImageWidth,
                         WaveformImageHeight, filename, dir_exists)
       IN  Finish(Render(call.data, call.channels,
                         Mono(call.data, call.filename),
                         Mono(Left, LeftName(call.filename)),
                         Mono(Right, RightName(call.filename))))
    /\ UNCHANGED <<call, dir_exists, dir_created, ret, liveVars>>

\* waveform/staticc/png_file/mod.rs 34-86: visualize.
StaticcVisualize ==
    /\ call.fn = "waveform::staticc::png_file"
    /\ outcome = "none"
    /\ LET Mono(samples, filename) ==
               MonoBasic(StaticcWaveformPixels(samples), StaticcWaveformImageWidth,
                         StaticcWaveformImageHeight, filename, dir_exists)
       IN  Finish(Render(call.data, call.channels,
                         Mono(call.data, call.filename),
                         Mono(Left, LeftName(call.filename)),
                         Mono(Right, RightName(call.filename))))
    /\ UNCHANGED <<call, dir_exists, dir_created, ret, liveVars>>

\* waveform/plotters_png_file.rs 77-78: the chart's width.
WaveformChartWidth(len) == IF len \div 5 > 4000 THEN 4000 ELSE len \div 5
\* waveform/staticc/plotters_png_file.rs 74
StaticcWaveformChartWidth(len) == len \div 20
WaveformChartHeight == 1000

\* The mono part is reached: the buffer is mono, or stereo of even length.
ReachesMono(samples, chans) == chans = "Mono" \/ StereoLenOk(samples)

\* waveform/plotters_png_file.rs 33-110: waveform_static_plotters_png_visualize.
WaveformStaticPlottersPngVisualize ==
    /\ call.fn = "waveform::plotters_png_file"
    /\ outcome = "none"
    \* 61-63: the first mono part creates a missing directory
    /\ dir_created' = (ReachesMono(call.data, call.channels) /\ ~dir_exists)
    /\ dir_exists' = (dir_exists \/ dir_created')
    /\ \E res_mono \in PlottersResults, res_left \in PlottersResults,
          res_right \in PlottersResults :
         LET Mono(res, samples, filename) ==
                 MonoPlotters(res, WaveformChartWidth(Len(samples)),
                              WaveformChartHeight, samples, filename, TRUE)
         IN  Finish(Render(call.data, call.channels,
                           Mono(res_mono, call.data, call.filename),
                           Mono(res_left, Left, LeftName(call.filename)),
                           Mono(res_right, Right, RightName(call.filename))))
    /\ UNCHANGED <<call, ret, liveVars>>

\* waveform/staticc/plotters_png_file.rs 33-: waveform_static_plotters_png_visualize.
StaticcWaveformStaticPlottersPngVisualize ==
    /\ call.fn = "waveform::staticc::plotters_png_file"
    /\ outcome = "none"
    /\ \E res_mono \in PlottersResults, res_left \in PlottersResults,
          res_right \in PlottersResults :
         LET Mono(res, samples, filename) ==
                 MonoPlotters(res, StaticcWaveformChartWidth(Len(samples)),
                              WaveformChartHeight, samples, filename, dir_exists)
         IN  Finish(Render(call.data, call.channels,
                           Mono(res_mono, call.data, call.filename),
                           Mono(res_left, Left, LeftName(call.filename)),
                           Mono(res_right, Right, RightName(call.filename))))
    /\ UNCHANGED <<call, dir_exists, dir_created, ret, liveVars>>

\* ------------------------------------------- the calls that are explored
MaxSpectrumLen == 3
MaxSamples == 4

\* All sequences over S of length at most n.
SeqsUpTo(S, n) == UNION {[1..k -> S] : k \in 0..n}

Magnitudes == {NaN, Num(-1), Num(0), Num(1), Num(2)}
SpectrumFns == {"spectrum::png_file", "spectrum::plotters_png_file",
                "spectrum::staticc::png_file", "spectrum::staticc::plotters_png_file"}
\* The renderers of spectrum/staticc take normalize_to_median.
HasNormalizeFlag(fn) ==
    fn \in {"spectrum::staticc::png_file", "spectrum::staticc::plotters_png_file"}

SampleValues == {I16_MIN, -1, 1, I16_MAX}
BasicWaveformFns == {"waveform::png_file", "waveform::staticc::png_file"}
WaveformFns == BasicWaveformFns \cup {"waveform::plotters_png_file",
                                      "waveform::staticc::plotters_png_file"}
Interleavements == {"LRLR", "LLRR"}
ChannelsValues == {"Mono"} \cup Interleavements
Filenames == {"wave.png"}

\* A call with the given arguments, not run yet.
InitCall(fns, datas, chans, flags, dirs) ==
    /\ InitLiveIdle
    /\ call \in [fn : fns, data : datas, channels : chans, flag : flags,
                 filename : Filenames]
    /\ outcome = "none"
    /\ dir_exists \in dirs
    /\ dir_created = FALSE
    /\ written = << >>
    /\ ret = << >>

\* The spectrum renderers on every spectrum of up to MaxSpectrumLen entries.
InitSpectrum ==
    /\ InitCall(SpectrumFns, SeqsUpTo(Magnitudes, MaxSpectrumLen), {"-"}, BOOLEAN,
                BOOLEAN)
    /\ call.flag => HasNormalizeFlag(call.fn)

NextSpectrum ==
    \/ SpectrumStaticPngVisualize
    \/ SpectrumStaticPlottersPngVisualize
    \/ StaticcSpectrumStaticPngVisualize
    \/ StaticcSpectrumStaticPlottersPngVisualize

SpecSpectrum == InitSpectrum /\ [][NextSpectrum]_vars

\* The waveform renderers on every buffer of up to MaxSamples samples.
InitWaveform ==
    InitCall(WaveformFns, SeqsUpTo(SampleValues, MaxSamples), ChannelsValues,
             {FALSE}, BOOLEAN)

NextWaveform ==
    \/ WaveformStaticPngVisualize
    \/ WaveformStaticPlottersPngVisualize
    \/ StaticcVisualize
    \/ StaticcWaveformStaticPlottersPngVisualize

SpecWaveform == InitWaveform /\ [][NextWaveform]_vars

\* The basic waveform renderers on mono buffers: every buffer of up to
\* MaxSamples samples of SampleValues, and every buffer of one sample, for
\* every i16 value.
InitPixels ==
    InitCall(BasicWaveformFns,
             SeqsUpTo(SampleValues, MaxSamples) \cup {<<v>> : v \in I16_MIN..I16_MAX},
             {"Mono"}, {FALSE}, {TRUE})

NextPixels ==
    \/ WaveformStaticPngVisualize
    \/ StaticcVisualize

SpecPixels == InitPixels /\ [][NextPixels]_vars

\* to_channel_data on every buffer of up to MaxSamples samples.
InitChannels ==
    InitCall({"to_channel_data"}, SeqsUpTo(SampleValues, MaxSamples),
             Interleavements, {FALSE}, {TRUE})

NextChannels == CallToChannelData

SpecChannels == InitChannels /\ [][NextChannels]_vars



\* ------------------------------------------------------------- properties
\* The last n elements of s (all of s when it has fewer).
LastN(s, n) == IF Len(s) <= n THEN s ELSE SubSeq(s, Len(s) - n + 1, Len(s))

\* n zeroes.
Zeros(n) == [i \in 1..n |-> 0]

\* The window the store should show: the last `capacity` elements of the
\* zero prefill followed by the given mono samples.
Window(samples) == LastN(Zeros(capacity) \o samples, capacity)

\* p is the smallest power of two >= n.
IsSmallestPow2AtLeast(p, n) ==
    /\ \E k \in 0..30 : p = Pow2(k)
    /\ p >= n
    /\ p = 1 \/ p \div 2 < n

\* The positions at which the frame's snapshot is held.
SnapshotPcs == {"paint_top", "transform", "paint_btm", "blit"}

\* C1: every snapshot equals the last `capacity` elements of (capacity zeroes
\* followed by the mono samples of all callbacks that returned before the
\* snapshot was taken, in callback order); it never holds a part of the batch
\* a running callback is appending.  An action property of the copy step.
C1_SnapshotIsWindowOfFinishedCallbacks ==
    [][(pc = "copy" /\ pc' = "paint_top") => snapshot' = Window(hist)]_vars

\* C1 witness: a snapshot was taken after the appended samples overflowed the
\* store, while a delivered callback with a non-empty buffer waits for the lock.
C1_Witness ==
    /\ pc = "paint_top"
    /\ Len(hist) > capacity
    /\ cbPc = "lock"
    /\ cbData # << >>
    /\ snapshot = Window(hist)
    /\ snapshot[1] # 0

\* C2: between appends the store equals the last C elements of (C zeroes
\* followed by all appended samples): while the total appended is <= C its
\* tail is the appended sequence and its head the remaining zero prefill, and
\* once the total exceeds C it is exactly the last C appended samples.
C2_StoreIsSlidingWindow ==
    (pc # "entry" /\ cbPc # "extend") =>
        /\ Len(store) = capacity
        /\ IF Len(hist) <= capacity
           THEN /\ SubSeq(store, capacity - Len(hist) + 1, capacity) = hist
                /\ \A i \in 1..(capacity - Len(hist)) : store[i] = 0
           ELSE store = SubSeq(hist, Len(hist) - capacity + 1, Len(hist))

\* C2 witness: more samples than the capacity were appended by several
\* callbacks, and the store holds the last `capacity` of them.
C2_Witness ==
    /\ cbPc = "idle"
    /\ Len(hist) > capacity
    /\ store = SubSeq(hist, Len(hist) - capacity + 1, Len(hist))
    /\ store[capacity] = 2 * delivered

\* C3: once created, the store's length equals its capacity in every state
\* (also in the middle of an append); every snapshot held has the length
\* recorded at setup, and the length assertion of the top chart never fails.
C3_LengthIsCapacity ==
    /\ pc # "entry" => (Len(store) = capacity /\ audio_buffer_len = capacity)
    /\ pc \in SnapshotPcs => Len(snapshot) = audio_buffer_len
    /\ pc # "panic_top_len"

\* C3 witness: a debug build painted the top chart (its assertion passed)
\* while a callback is in the middle of the append that overflows the store.
C3_Witness ==
    /\ debug_assertions
    /\ pc = "transform"
    /\ cbPc = "extend"
    /\ cbIdx > 0 /\ cbIdx < Len(cbData)
    /\ Len(hist) + cbIdx > capacity
    /\ Len(snapshot) = 8
    /\ Len(store) = 8

\* C4 (as claimed): for every sampling rate R the store created at entry has
\* a capacity equal to the smallest power of two >= 5 * R.
C4_CapacityIsNextPow2OfFiveRate ==
    pc = "allocated" => IsSmallestPow2AtLeast(capacity, 5 * sample_rate_cfg)


\* The averages of the LR pairs of an interleaved buffer of even length.
Averages(d) == [j \in 1..(Len(d) \div 2) |-> (d[2 * j - 1] + d[2 * j]) \div 2]

\* The callback has pushed all its items and is about to return.
CallbackDone == cbPc = "extend" /\ cbIdx = Len(CallbackItems(cbData, IsMono))

\* C5: a 2-channel callback with the interleaved buffer [l0, r0, .., l(n-1),
\* r(n-1)] leaves the store as a 1-channel callback with the n averages
\* (l+r)/2 would, started from the same store: n mono samples, one per frame,
\* in frame order; a 1-channel callback appends its buffer unchanged.
C5_StereoEqualsMonoOfAverages ==
    CallbackDone =>
        /\ (channels = 2 /\ Len(cbData) % 2 = 0) =>
              /\ cbIdx = Len(cbData) \div 2
              /\ store = RingExtend(cbPre, CallbackItems(Averages(cbData), TRUE), capacity)
              /\ store = LastN(cbPre \o Averages(cbData), capacity)
        /\ channels = 1 => store = LastN(cbPre \o cbData, capacity)

\* C5 witness: a stereo callback has appended the two averages of a buffer of
\* two frames.
C5_Witness ==
    /\ channels = 2
    /\ CallbackDone
    /\ Len(cbData) = 4
    /\ cbIdx = 2
    /\ store[capacity] = (cbData[3] + cbData[4]) \div 2
    /\ store[capacity - 1] = (cbData[1] + cbData[2]) \div 2

\* A step of the data callback.
CaptureStep == <<cbPc, cbData, cbIdx, delivered>>' # <<cbPc, cbData, cbIdx, delivered>>

\* C6: capture and UI never mutate each other's data: a snapshot the render
\* loop holds is unchanged by every step taken while it is held, a step of a
\* render frame leaves the store unchanged, and a step of the capture
\* callback changes nothing of the UI, the window or the stream.
C6_NoMutualMutation ==
    [][/\ (pc \in SnapshotPcs /\ pc' \in SnapshotPcs) => snapshot' = snapshot
       /\ (pc \in LoopPcs /\ pc' # pc) => (store' = store /\ capacity' = capacity)
       /\ CaptureStep => UNCHANGED <<frameVars, auxVars, winVars, devVars, cfgVars, uiVars, envVars, capacity>>]_vars

\* C6 witness: the render loop holds a snapshot with captured samples, and the
\* capture has appended to the store since it was taken.
C6_Witness ==
    /\ pc = "paint_btm"
    /\ snapshot[capacity] # 0
    /\ cbPc = "idle"
    /\ store # snapshot
    /\ store[capacity - 1] = snapshot[capacity]

\* The positions of a frame after the snapshot statement.
AfterSnapshotPcs == {"paint_top", "transform", "paint_btm", "blit"}

\* C7: the render loop holds the mutex only while copying the store: the lock
\* is released before the top chart is painted, the transform is called, the
\* bottom chart is painted and the blit; a callback waiting for the lock
\* during these steps can take it.
C7_LockOnlyWhileCopying ==
    /\ lock = "ui" => pc = "copy"
    /\ (pc \in AfterSnapshotPcs /\ cbPc = "lock") => ENABLED CbLock

\* C7 witness: a callback is appending, holding the lock, while the UI is
\* about to run the transform.
C7_Witness ==
    /\ pc = "transform"
    /\ lock = "cb"
    /\ cbPc = "extend"
    /\ cbIdx > 0

\* The points of the decimated waveform of v: one for each index 0, 4, 8, ..
ExpectedWaveform(v) ==
    [k \in 1..((Len(v) + 3) \div 4) |->
        <<4 * (k - 1) - audio_buffer_len, v[4 * (k - 1) + 1]>>]

\* C8: when a frame has been painted, one transform function has been called
\* once, with the snapshot painted into the top chart and the configured
\* sampling rate; for Basic(f) the bottom chart holds the decimated waveform
\* of f's result on the top chart's time axis, for Complex(f) the points f
\* returned, in order; with the identity the two charts hold the same points.
C8_OneTransformPerFrame ==
    pc = "blit" =>
        /\ transformCalls = 1
        /\ transformArgs = <<transform.kind, snapshot, sample_rate_cfg>>
        /\ topPlot = <<ExpectedWaveform(snapshot)>>
        /\ transform.kind = "Basic" =>
              btmPlot = <<ExpectedWaveform(
                            ApplyBasic(transform.fn, snapshot, sample_rate_cfg))>>
        /\ transform.kind = "Complex" =>
              btmPlot = <<ApplyComplex(transform.fn, snapshot, sample_rate_cfg)>>
        /\ transform = [kind |-> "Basic", fn |-> "identity"] => btmPlot = topPlot

\* C8 witness: a frame was painted with the identity transform from a
\* snapshot that holds captured samples, and a callback appended meanwhile.
C8_Witness ==
    /\ pc = "blit"
    /\ transform = [kind |-> "Basic", fn |-> "identity"]
    /\ btmPlot = topPlot
    /\ Len(topPlot[1]) = 2
    /\ topPlot[1][2][2] # 0
    /\ store # snapshot

\* C9 (as claimed): a Basic transform whose result has another length than the
\* snapshot is rejected: its data is never painted into the bottom chart.
C9_MisSizedBasicIsRejected ==
    (transform.kind = "Basic" /\ pc = "blit") => Len(transformOut) = Len(snapshot)

\* The positions after the loop's exit was decided.
ExitPcs == {"pause", "returned", "panic_pause"}

\* C10 (amended): once Escape is pressed while the loop is running and is
\* still down at the next window update, the loop exits after at most two
\* further iterations; no snapshot is taken after the exit is decided, and
\* the stream is paused when open_window_connect_audio returns.
C10_HeldEscapeExits ==
    /\ pressState \in {"pressed", "seen"} => pressIters <= 2
    /\ pc \in ExitPcs => (snapshot = << >> /\ lock # "ui")
    /\ pc = "returned" => stream = "paused"

\* C10 witness: Escape was pressed during a frame and held, the loop exited at
\* its next check and the call returned with the stream paused.
C10_Witness ==
    /\ pc = "returned"
    /\ pressState = "seen"
    /\ keyDown
    /\ windowOpen
    /\ ~closeReq
    /\ stream = "paused"
    /\ pressIters <= 1

\* C10 (as claimed): once Escape is pressed while the loop is running, the
\* loop exits after at most two further iterations, whether or not the key is
\* still down when the window next handles its events.
C10_AnyPressExits ==
    /\ pressState # "none" => pressIters <= 2
    /\ pc \in ExitPcs => (snapshot = << >> /\ lock # "ui")
    /\ pc = "returned" => stream = "paused"


\* The states of the live window: 0 Setup, 1 Running, 2 Stopping, 3 Terminated.
Phase(p) ==
    IF p \in {"entry", "setup_audio", "play", "setup_window"} THEN 0
    ELSE IF p \in LoopPcs THEN 1
    ELSE IF p = "pause" THEN 2
    ELSE 3

\* The positions of a frame, and the position that follows each.
FramePcs == LoopPcs \ {"loop_check"}
NextInFrame(p) ==
    CASE p = "areas"     -> "restore"
      [] p = "restore"   -> "fill"
      [] p = "fill"      -> "lock"
      [] p = "lock"      -> "copy"
      [] p = "copy"      -> "paint_top"
      [] p = "paint_top" -> "transform"
      [] p = "transform" -> "paint_btm"
      [] p = "paint_btm" -> "blit"
      [] p = "blit"      -> "loop_check"

\* C11: the window moves only forward through Setup, Running, Stopping,
\* Terminated; Stopping is entered only from the loop condition, which starts
\* an iteration exactly when the window is open and Escape is not down; a
\* frame that started runs its steps in order (fill, snapshot, both paints,
\* blit) and is complete when the loop condition is evaluated again.
C11_LoopLeavesRunningBetweenFrames ==
    [][/\ Phase(pc') >= Phase(pc)
       /\ (pc' = "pause" /\ pc # "pause") =>
             (pc = "loop_check" /\ ~(windowOpen /\ ~keyDown))
       /\ (pc = "loop_check" /\ pc' # pc) =>
             /\ pc' \in {"areas", "pause"}
             /\ pc' = "areas" <=> (windowOpen /\ ~keyDown)
       /\ (pc \in FramePcs /\ pc' # pc) =>
             (pc' = NextInFrame(pc) \/ pc' \in PanicPcs)
       /\ (pc = "blit" /\ pc' = "loop_check") =>
             (Len(topPlot) = 1 /\ Len(btmPlot) = 1 /\ transformCalls = 1)]_vars

\* C11 witness: the loop has left Running at its condition after a complete
\* frame, because the window was closed while Escape was not down.
C11_Witness ==
    /\ pc = "pause"
    /\ ~windowOpen
    /\ closeReq
    /\ ~keyDown
    /\ pressState = "missed"
    /\ Len(topPlot) = 1
    /\ Len(btmPlot) = 1
    /\ Len(hist) > 0


\* The positions at which setup_window has returned.
WindowSetUpPcs == LoopPcs \cup {"pause", "returned", "panic_pause",
                                "panic_top_len", "panic_btm_len", "panic_update"}

\* C12 (as claimed): the stream is started only after window setup has
\* completed (window setup, stream start, frames, stream pause), and it is
\* paused when the call returns.
C12_PlayOnlyAfterWindowSetup ==
    /\ stream \in {"playing", "paused"} => pc \in WindowSetUpPcs
    /\ pc = "returned" => stream = "paused"

\* C12 (amended): the stream is started before window setup begins and is
\* paused after the loop has exited: the order of events is stream start,
\* window setup, frames, stream pause.
C12_PlayBeforeWindowSetup ==
    /\ pc \in ({"setup_window", "pause"} \cup LoopPcs) => stream = "playing"
    /\ stream \in {"none", "built"} =>
          (pc \notin WindowSetUpPcs /\ ~windowOpen /\ topPlot = << >>)
    /\ stream = "paused" <=> pc = "returned"

\* C12 witness: the stream plays and a callback has appended samples to the
\* store while the window is not set up yet.
C12_Witness ==
    /\ pc = "setup_window"
    /\ stream = "playing"
    /\ ~windowOpen
    /\ Len(hist) > 0
    /\ store[capacity] # 0

\* C13 (as claimed): after the loop has exited the call returns normally,
\* whether the pause request succeeds or fails.
C13_PauseIsBestEffort ==
    [][(pc = "pause" /\ pc' # pc) => pc' = "returned"]_vars


\* C14: with a channel count that is neither 1 nor 2 the call ends in the
\* panic of setup_audio_input_loop's assertion: the stream is never built or
\* started, no callback runs or appends to the store, and no window is opened.
C14_BadChannelCountRejected ==
    ~(channels = 1 \/ channels = 2) =>
        /\ pc \in {"entry", "setup_audio", "panic_channels"}
        /\ stream = "none"
        /\ ~windowOpen
        /\ cbPc = "idle" /\ delivered = 0 /\ hist = << >>
        /\ pc # "entry" => store = Zeros(capacity)
        /\ topPlot = << >> /\ btmPlot = << >>

\* C14 witness: a configuration of three channels has run into the panic of
\* the assertion, with the store created and untouched.
C14_Witness ==
    /\ channels = 3
    /\ pc = "panic_channels"
    /\ stream = "none"
    /\ capacity = 8
    /\ store = Zeros(8)


\* C15 (as claimed): every stream error reported to the error callback is
\* logged, and the callback leaves the store, the lock, the stream's state,
\* the render loop and the data callback as they are, so that data callbacks
\* keep arriving and appending.
C15_StreamErrorLoggedAndIgnored ==
    [][errors' # errors =>
          /\ errLog' = errLog + 1
          /\ UNCHANGED <<storeVars, stream, uiVars, cbVars, hist>>]_vars


\* The stream was requested: build_input_stream was called.
StreamRequested == pc \in {"play", "panic_build_stream"}

\* C16 (as claimed): the buffer size requested from build_input_stream is the
\* backend's default on ALSA, and max(device minimum, 128 frames) on every
\* other backend.
C16_BufferSizePolicy ==
    StreamRequested =>
        requested_buffer_size =
            IF backend = "alsa" THEN DefaultBuf
            ELSE FixedBuf(IF dev_min_buf > 128 THEN dev_min_buf ELSE 128)

\* C16 (amended): the requested buffer size does not depend on the backend or
\* on the device's supported sizes: setup_audio_input_loop of live_input
\* requests the buffer size of the configuration it was given (the backend's
\* default when AudioDevAndCfg::new filled in the device's default
\* configuration), the older variant requests a fixed size of 128 frames.
C16_BufferSizeAsConfigured ==
    StreamRequested =>
        requested_buffer_size =
            IF setup_fn = "live_input"
            THEN (IF preferred_cfg = None THEN DefaultBuf
                  ELSE preferred_cfg[1].buffer_size)
            ELSE FixedBuf(128)

\* C16 witness: on a host that is not ALSA, with a device whose minimum is
\* above 128 frames, the stream was requested with the caller's 64 frames.
C16_Witness ==
    /\ pc = "play"
    /\ setup_fn = "live_input"
    /\ backend = "wasapi"
    /\ dev_min_buf = 256
    /\ requested_buffer_size = FixedBuf(64)

\* AudioDevAndCfg::new has returned.
DevAndCfgBuilt == setup_fn = "live_input" /\ pc \notin ({"new"} \cup SelectPanicPcs)

\* C17: AudioDevAndCfg::new keeps a supplied device and a supplied
\* configuration; an absent device is the host's default input device (a panic
\* when there is none, also when a configuration was supplied), an absent
\* configuration is the default input configuration of the chosen device.
C17_AbsentFieldsFilledWithDefaults ==
    /\ DevAndCfgBuilt =>
          /\ preferred_dev # None => dev = preferred_dev[1]
          /\ preferred_dev = None =>
                (host_default_dev # None /\ dev = host_default_dev[1])
          /\ preferred_cfg # None =>
                /\ channels = preferred_cfg[1].channels
                /\ sample_rate_cfg = preferred_cfg[1].sample_rate
                /\ cfg_buffer_size = preferred_cfg[1].buffer_size
          /\ preferred_cfg = None =>
                /\ channels = (IF dev = "mic" THEN 2 ELSE 1)
                /\ sample_rate_cfg = 1
                /\ cfg_buffer_size = DefaultBuf
    /\ (setup_fn = "live_input" /\ preferred_dev = None /\ host_default_dev = None)
          => pc \in {"new", "panic_no_input_device"}
    /\ pc = "panic_no_input_device" =>
          (preferred_dev = None /\ host_default_dev = None)

\* C17 witness: a device other than the host's default was supplied without
\* a configuration, and the configuration is that device's default.
C17_Witness ==
    /\ setup_fn = "live_input"
    /\ pc = "entry"
    /\ preferred_dev = Some("usb")
    /\ host_default_dev = Some("mic")
    /\ preferred_cfg = None
    /\ dev = "usb"
    /\ channels = 1
    /\ cfg_buffer_size = DefaultBuf


\* The positions at which the top chart of the frame is painted.
TopPaintedPcs == {"transform", "paint_btm", "blit"}

\* The points of the top chart are those of the indices 0, 4, 8, .. of the
\* snapshot, index i at i - capacity sample periods (i/R - capacity/R), and
\* the oldest sample lies at the left end of the top chart's x-range
\* [-capacity/R, 0].
TimestampsShiftedByCapacity ==
    /\ Len(snapshot) = capacity
    /\ x_range_top = <<0 - capacity, 0>>
    /\ \A k \in 1..Len(topPlot[1]) :
          topPlot[1][k] = <<4 * (k - 1) - capacity, snapshot[4 * (k - 1) + 1]>>
    /\ topPlot[1][1][1] = x_range_top[1]

\* C18 (as claimed): index i of a snapshot has the timestamp i/R - capacity/R,
\* the oldest sample lies at -capacity/R and the newest (i = capacity - 1) at
\* t = 0, the right end of the top chart's x-range.
C18_NewestSampleAtZero ==
    pc \in TopPaintedPcs =>
        /\ TimestampsShiftedByCapacity
        /\ Timestamp(capacity - 1, audio_buffer_len) = x_range_top[2]

\* C18 (amended): index i of a snapshot has the timestamp i/R - capacity/R,
\* the oldest sample lies at -capacity/R, the left end of the top chart's
\* x-range, and the newest (i = capacity - 1) at -1/R, one sample period
\* before the right end t = 0.
C18_NewestSampleOnePeriodBeforeZero ==
    pc \in TopPaintedPcs =>
        /\ TimestampsShiftedByCapacity
        /\ Timestamp(capacity - 1, audio_buffer_len) = x_range_top[2] - 1
        /\ \A k \in 1..Len(topPlot[1]) : topPlot[1][k][1] < x_range_top[2]

\* C18 witness: the top chart of a store of 8 was painted with the points of
\* index 0 at -8 and index 4 at -4, the latter a captured sample.
C18_Witness ==
    /\ pc = "transform"
    /\ capacity = 8
    /\ topPlot = << << <<-8, snapshot[1]>>, <<-4, snapshot[5]>> >> >>
    /\ snapshot[5] # 0

\* C19: the ranges of the bottom chart are the preferred ones where they are
\* given and the top chart's where they are absent, each on its own; the top
\* chart's ranges are x = [-buffer_len * time_per_sample, 0] and
\* y = [-1.0, 1.01] whatever is preferred.
C19_BtmRangesDefaultToTop ==
    pc \in WindowSetUpPcs =>
        /\ x_range_top = <<0 - audio_buffer_len, 0>>
        /\ y_range_top = <<-100, 101>>
        /\ x_range_btm = IF preferred_x_range = None THEN <<0 - audio_buffer_len, 0>>
                         ELSE preferred_x_range[1]
        /\ y_range_btm = IF preferred_y_range = None THEN <<-100, 101>>
                         ELSE preferred_y_range[1]

\* C19 witness: a frame is drawn in a window set up with a preferred x-range
\* and no preferred y-range.
C19_Witness ==
    /\ pc = "blit"
    /\ setup_fn = "live_input"
    /\ preferred_x_range = Some(<<-2, 5>>)
    /\ preferred_y_range = None
    /\ x_range_btm = <<-2, 5>>
    /\ y_range_btm = <<-100, 101>>
    /\ x_range_top = <<-8, 0>>

\* C20 (as claimed): the pair (preferred width or 1280, preferred height or
\* 720) is the size of the window created, of the pixel buffer (w * h words),
\* of the drawing areas at setup and in every frame, and of every blit.
C20_OneSizeEverywhere ==
    LET w == IF preferred_width = None THEN 1280 ELSE preferred_width[1]
        h == IF preferred_height = None THEN 720 ELSE preferred_height[1]
    IN  pc \in WindowSetUpPcs =>
            /\ window_dims = <<w, h>>
            /\ pixel_buf_len = w * h
            /\ area_dims = <<w, h>>
            /\ blit_dims = <<w, h>>
            /\ pixel_buf_len = window_dims[1] * window_dims[2]

\* C22: whenever a static spectrum renderer (basic or plotters-based, current
\* or of spectrum/staticc) was called with a spectrum that has a NaN
\* magnitude, the call panicked, and it created no directory and wrote no
\* file.
C22_NanSpectrumPanicsFirst ==
    (call.fn \in SpectrumFns /\ outcome # "none" /\ AnyNan(call.data))
        => /\ outcome = "panicked"
           /\ ~dir_created
           /\ written = << >>

\* C23: whenever a basic waveform PNG renderer was called with a non-empty
\* mono buffer (any i16 values, i16::MIN and i16::MAX included) and an
\* existing directory, it did not panic, and every pixel it set, one for each
\* sample, has 0 <= x < image_width and 0 <= y < image_height.
C23_PixelsInsideImage ==
    (/\ call.fn \in BasicWaveformFns
     /\ call.channels = "Mono"
     /\ call.data # << >>
     /\ dir_exists
     /\ outcome # "none")
        => /\ outcome = "returned"
           /\ Len(written) = 1
           /\ LET image == written[1].image
              IN  /\ Len(image.content) = Len(call.data)
                  /\ \A i \in 1..Len(image.content) :
                        /\ 0 <= image.content[i][1]
                        /\ image.content[i][1] < image.width
                        /\ 0 <= image.content[i][2]
                        /\ image.content[i][2] < image.height

\* The current renderer has drawn the buffer [i16::MAX, i16::MIN] of its
\* test: the first sample in the top row, the second in the bottom row.
C23_Witness ==
    /\ call.fn = "waveform::png_file"
    /\ call.channels = "Mono"
    /\ call.data = <<I16_MAX, I16_MIN>>
    /\ outcome = "returned"
    /\ Len(written) = 1
    /\ written[1].image.content = <<<<0, 0>>, <<750, 199>>>>

\* The samples of a stereo buffer that belong to the left and to the right
\* channel, by their positions: for LRLR the 1st, 3rd, .. and the 2nd, 4th, ..
\* sample, for LLRR the first and the second half.
ChannelOf(layout, data, side) ==
    LET n == Len(data)
        half == n \div 2
    IN  IF layout = "LRLR"
        THEN IF side = "left"
             THEN [k \in 1..((n + 1) \div 2) |-> data[2 * k - 1]]
             ELSE [k \in 1..half |-> data[2 * k]]
        ELSE IF side = "left"
             THEN [k \in 1..half |-> data[k]]
             ELSE [k \in 1..(n - half) |-> data[half + k]]

\* The image the renderer fn makes of a mono buffer.
MonoImageOf(fn, samples) ==
    CASE fn = "waveform::png_file" ->
             WaveformImage(WaveformPixels(samples), WaveformImageWidth,
                           WaveformImageHeight)
      [] fn = "waveform::staticc::png_file" ->
             WaveformImage(StaticcWaveformPixels(samples), StaticcWaveformImageWidth,
                           StaticcWaveformImageHeight)
      [] fn = "waveform::plotters_png_file" ->
             ChartImage(WaveformChartWidth(Len(samples)), WaveformChartHeight, samples)
      [] fn = "waveform::staticc::plotters_png_file" ->
             ChartImage(StaticcWaveformChartWidth(Len(samples)), WaveformChartHeight,
                        samples)

\* C24: for every static waveform renderer that was called: with a stereo
\* buffer it never writes a file under the given filename, with a stereo buffer
\* of odd length it panicked and wrote nothing, and when it returned from a
\* stereo buffer it wrote exactly two files, left_<filename> with the mono
\* image of the left channel and then right_<filename> with the mono image of
\* the right channel; when it returned from a mono buffer it wrote exactly one
\* file, under the given filename.
C24_StereoWritesLeftAndRight ==
    (call.fn \in WaveformFns /\ outcome # "none") =>
        IF call.channels # "Mono"
        THEN /\ \A k \in 1..Len(written) : written[k].name # call.filename
             /\ Len(call.data) % 2 # 0 => outcome = "panicked" /\ written = << >>
             /\ outcome = "returned" =>
                   written = <<File("left_" \o call.filename,
                                    MonoImageOf(call.fn,
                                        ChannelOf(call.channels, call.data, "left"))),
                               File("right_" \o call.filename,
                                    MonoImageOf(call.fn,
                                        ChannelOf(call.channels, call.data, "right")))>>
        ELSE outcome = "returned" =>
                 written = <<File(call.filename, MonoImageOf(call.fn, call.data))>>

\* A renderer returned from an LRLR buffer of four samples and wrote the two
\* channels' files.
C24_Witness ==
    /\ call.fn = "waveform::png_file"
    /\ call.channels = "LRLR"
    /\ call.data = <<I16_MIN, -1, 1, I16_MAX>>
    /\ outcome = "returned"
    /\ Len(written) = 2
    /\ written[1].name = "left_wave.png"
    /\ written[2].name = "right_wave.png"
    /\ written[1].image.content = WaveformPixels(<<I16_MIN, 1>>)

\* Two channels of equal length put together again in the given layout.
Interleave(layout, left, right) ==
    IF layout = "LRLR"
    THEN [i \in 1..(2 * Len(left)) |->
             IF i % 2 = 1 THEN left[(i + 1) \div 2] ELSE right[i \div 2]]
    ELSE left \o right

\* C25: to_channel_data returns, for LRLR, the elements at even (0-based)
\* indices as left and those at odd indices as right, in order, and for LLRR
\* the first floor(n/2) elements as left and the rest as right; the lengths add
\* up to n; for even n both are n/2 long and interleaving them in the same
\* layout gives the input back.
C25_SplitKeepsEverySample ==
    (call.fn = "to_channel_data" /\ outcome = "returned") =>
        LET n == Len(call.data)
            left == ret[1]
            right == ret[2]
        IN  /\ left = ChannelOf(call.channels, call.data, "left")
            /\ right = ChannelOf(call.channels, call.data, "right")
            /\ call.channels = "LLRR" =>
                  /\ left = SubSeq(call.data, 1, n \div 2)
                  /\ right = SubSeq(call.data, (n \div 2) + 1, n)
            /\ Len(left) + Len(right) = n
            /\ n % 2 = 0 =>
                  /\ Len(left) = n \div 2
                  /\ Len(right) = n \div 2
                  /\ Interleave(call.channels, left, right) = call.data

\* An LLRR buffer of three samples was split into one left and two right
\* samples.
C25_Witness ==
    /\ call.fn = "to_channel_data"
    /\ call.channels = "LLRR"
    /\ call.data = <<I16_MIN, 1, I16_MAX>>
    /\ outcome = "returned"
    /\ ret = <<<<I16_MIN>>, <<1, I16_MAX>>>>

\* C26: an iteration goes through its steps in the order drawing areas,
\* restore, fill, lock, copy, top chart, transform, bottom chart, blit.  The UI
\* takes the store's lock only at the snapshot, after the fill and before any
\* painting, once in an iteration; update_with_buffer is called only when the
\* top chart holds the waveform of this iteration's snapshot and the bottom
\* chart the result of the one transform call on that snapshot, once in an
\* iteration; a complete iteration has locked once and blitted once.
C26_FrameStepsInOrder ==
    [][/\ (pc \in FramePcs /\ pc' # pc) =>
             (pc' = NextInFrame(pc) \/ pc' \in PanicPcs)
       /\ (lock' = "ui" /\ lock # "ui") =>
             /\ pc = "lock"
             /\ uiLocks = 0 /\ uiLocks' = 1
             /\ area_dims # NoDims
             /\ topPlot = << >> /\ btmPlot = << >>
             /\ transformCalls = 0
       /\ uiLocks' > uiLocks => (lock' = "ui" /\ lock # "ui")
       /\ (pc = "copy" /\ pc' # pc) => (lock = "ui" /\ snapshot' = store)
       /\ (pc = "transform" /\ pc' # pc) =>
             topPlot = <<WaveformPoints(snapshot, audio_buffer_len)>>
       /\ blits' > blits =>
             /\ pc = "blit"
             /\ blits = 0 /\ blits' = 1
             /\ uiLocks = 1
             /\ lock # "ui"
             /\ topPlot = <<WaveformPoints(snapshot, audio_buffer_len)>>
             /\ transformCalls = 1
             /\ transformArgs[2] = snapshot
             /\ Len(btmPlot) = 1
             /\ btmPlot[1] = IF transform.kind = "Basic"
                             THEN WaveformPoints(transformOut, audio_buffer_len)
                             ELSE ComplexPoints(transformOut)
       /\ (pc = "blit" /\ pc' = "loop_check") => (uiLocks' = 1 /\ blits' = 1)]_vars

\* An iteration is complete: one lock, one blit, both charts painted, with
\* captured samples in the top chart.
C26_Witness ==
    /\ pc = "loop_check"
    /\ uiLocks = 1
    /\ blits = 1
    /\ Len(topPlot) = 1
    /\ Len(btmPlot) = 1
    /\ \E k \in 1..Len(topPlot[1]) : topPlot[1][k][2] # 0

\* The number of line segments LineSeries draws through a sequence of points.
Segments(points) == IF Len(points) = 0 THEN 0 ELSE Len(points) - 1

\* The decimated waveform of the N samples of data: one point for each index
\* 0, 4, 8, .. below N in this order, the point of index i at i - capacity
\* sample periods (i/rate - capacity/rate) with the amplitude data[i].
IsDecimationOf(points, data) ==
    /\ Len(points) = Cardinality({i \in 0..(Len(data) - 1) : i % 4 = 0})
    /\ \A k \in 1..Len(points) :
          LET i == 4 * (k - 1)
          IN  /\ i < Len(data)
              /\ points[k] = <<i - capacity, data[i + 1]>>

\* C27: the waveform painted from a sample sequence of length N consists of
\* exactly the samples whose index is a multiple of 4, in increasing index
\* order from index 0; the point of index i is (i - capacity, sample[i]) in
\* sample periods, that is (i/rate - capacity/rate, sample[i]).  This holds of
\* the top chart (painted from the snapshot) and of the bottom chart of a Basic
\* transform (painted from the transform's result).
C27_EveryFourthSampleFromZero ==
    /\ pc \in TopPaintedPcs =>
          /\ Len(topPlot) = 1
          /\ IsDecimationOf(topPlot[1], snapshot)
    /\ (pc = "blit" /\ transform.kind = "Basic") =>
          /\ Len(btmPlot) = 1
          /\ IsDecimationOf(btmPlot[1], transformOut)

\* A snapshot of 16 samples whose last ten are captured ones was painted as
\* the four points of the indices 0, 4, 8 and 12, and a result of 15 samples
\* as four points as well.
C27_Witness ==
    /\ pc = "blit"
    /\ capacity = 16
    /\ Len(snapshot) = 16
    /\ Len(transformOut) = 15
    /\ topPlot[1] = <<<<-16, snapshot[1]>>, <<-12, snapshot[5]>>,
                      <<-8, snapshot[9]>>, <<-4, snapshot[13]>>>>
    /\ snapshot[9] # 0 /\ snapshot[13] # 0 /\ snapshot[10] # snapshot[9]
    /\ Len(btmPlot[1]) = 4

\* C28 as stated: painting every 4th sample draws an eighth of the N - 1
\* segments of a plot with one point per sample, about N/8 segments (within
\* one segment).
C28_EightfoldReduction ==
    pc \in TopPaintedPcs =>
        LET n == Len(snapshot)
            drawn == Segments(topPlot[1])
        IN  /\ 8 * drawn <= (n - 1) + 8
            /\ 8 * drawn >= (n - 1) - 8

\* C28: painting every 4th sample of N >= 1 samples draws the ceil(N/4) points
\* of the indices 0, 4, 8, .. and so ceil(N/4) - 1 segments: a quarter, not an
\* eighth, of the N - 1 segments of a plot with one point per sample (within
\* one segment).
C28_FourfoldReduction ==
    /\ pc \in TopPaintedPcs =>
          LET n == Len(snapshot)
              drawn == Segments(topPlot[1])
          IN  /\ n >= 1
              /\ drawn = (n + 3) \div 4 - 1
              /\ 4 * drawn <= n - 1
              /\ 4 * drawn >= (n - 1) - 3
    /\ (pc = "blit" /\ transform.kind = "Basic" /\ Len(transformOut) >= 1) =>
          Segments(btmPlot[1]) = (Len(transformOut) + 3) \div 4 - 1

\* A snapshot of 32 samples was painted with 7 segments, where an eighth of
\* its 31 segments would be about 4.
C28_Witness ==
    /\ pc = "transform"
    /\ Len(snapshot) = 32
    /\ Segments(topPlot[1]) = 7

\* The averages of the pairs (data[0], data[1]), (data[2], data[3]), .. of a
\* buffer, counted from its own first sample; a last sample without a partner
\* is in none of them.
OwnPairs(data) ==
    [j \in 1..(Len(data) \div 2) |-> (data[2 * j - 1] + data[2 * j]) \div 2]

\* C29: a 2-channel callback with a buffer of n samples returns having pushed
\* floor(n/2) samples, the averages of the pairs counted from the buffer's own
\* index 0, onto the store it found; for an odd n the trailing sample is in no
\* pair.  The callback keeps nothing: its buffer is gone when it returns, and
\* the next callback's buffer is the device's next one, which starts after the
\* dropped sample.
C29_OddStereoBufferDropsLast ==
    [][/\ (channels = 2 /\ cbPc = "extend" /\ cbPc' = "idle") =>
             LET n == Len(cbData)
             IN  /\ cbIdx = n \div 2
                 /\ Len(OwnPairs(cbData)) = IF n % 2 = 1 THEN (n - 1) \div 2
                                            ELSE n \div 2
                 /\ store = LastN(cbPre \o OwnPairs(cbData), capacity)
                 /\ store' = store
                 /\ hist' = hist \o OwnPairs(cbData)
                 /\ cbData' = << >>
       /\ (channels = 2 /\ cbPc = "idle" /\ cbPc' = "lock") =>
             /\ cbData = << >>
             /\ cbData' = DeviceBuffer(delivered, Len(cbData'))
             /\ store' = store]_vars

\* Two 2-channel callbacks of three samples each: the first has appended the
\* average 3 of 2 and 4 and dropped 6, the second has appended the average 9 of
\* its own first two samples 8 and 10 and is about to return.
C29_Witness ==
    /\ channels = 2
    /\ CallbackDone
    /\ cbData = <<8, 10, 12>>
    /\ cbIdx = 1
    /\ hist = <<3>>
    /\ store[capacity] = 9
    /\ store[capacity - 1] = 3

\* The positions of a frame that has started and has no snapshot yet.
BeforeSnapshotPcs == {"areas", "restore", "fill", "lock", "copy"}

=============================================================================
